---- MODULE Spec2Model ----
(***************************************************************************)
(* The EGD-CXR sampling scripts of gaze-01 as a state machine.             *)
(*                                                                         *)
(*   src/src/sampling_data/sampling_egd_cxr_enhanced.py                    *)
(*       EnhancedEGDCXRSampler (the "enhanced" script)                     *)
(*   src/src/sampling_data/sampling_egd_cxr.py                             *)
(*       EGDCXRSampler (the "basic" script)                                *)
(*                                                                         *)
(* One behaviour is one process run of one script over one raw dataset.    *)
(* The configuration file names two directories: the raw dataset (`raw`),  *)
(* which is the input and is chosen in Init, and the output directory      *)
(* (`out`).  Every method of the run is one action, the per-condition      *)
(* loops of the samplers one action per iteration.                         *)
(*                                                                         *)
(* Tables.  A case table (master sheet, data frames built from it) is a    *)
(* sequence of rows [dicom_id, flags], flags being the set of condition    *)
(* columns whose value is 1.  The gaze, fixation and bounding-box tables   *)
(* are long (the code reads them by 1000-row prefix and 10000-row chunks), *)
(* so they are kept run-length encoded: a sequence of pieces               *)
(* [id, from, to], the piece standing for the source rows from..to, all    *)
(* of case `id`.  A row is identified by its source row number.            *)
(*                                                                         *)
(* Two further groups of scripts have a specification of their own, the    *)
(* variables of the other groups standing idle:                            *)
(*   src/download_dicom_with_wget.py, src/backup/download_mimic_dicom.py   *)
(*       the download loops (SpecDownload; SpecDownloadRerun runs the wget *)
(*       script twice over one output directory)                           *)
(*   src/visualize_egd_cxr_with_real_image.py, src/create_egd_cxr_plots.py *)
(*       the loading of optional per-case data (SpecPlots) and main() of   *)
(*       create_egd_cxr_plots.py as a whole (SpecPlotsMain)                *)
(*                                                                         *)
(* The sampler has four specifications: Spec (one run), SpecRerun (the     *)
(* script run again over the same dataset), SpecRerunChanged (run again    *)
(* after the dataset was replaced) and SpecLarge (one run over an index    *)
(* with more cases than the target size).                                  *)
(***************************************************************************)
EXTENDS Integers, Sequences, FiniteSets, TLC

VARIABLES
    config,           \* the YAML configuration file, None when there is none
    raw,              \* the directory of the raw dataset on disk
    script,           \* which script runs: "enhanced" or "basic"
    n_samples,        \* the n_samples argument of the sampler
    pc,               \* the method (or loop) the run is about to execute
    i,                \* index of the condition loop in progress
    df,               \* the loaded master sheet
    complete_studies, \* result of validate_data_completeness
    df_complete,      \* df restricted to complete_studies
    samples,          \* the list of drawn frames
    used_ids,         \* the set of dicom_ids drawn so far
    sample_df,        \* the sample returned by the sampler
    out,              \* the output directory (self.output_path)
    ret,              \* values returned by the extraction methods
    metadata,         \* the metadata document of the run
    log,              \* the log lines that carry data (logger.info/warning)
    error,            \* the exception that ended the run, "" when none
    np_random,        \* the process-wide (unseeded) RNG state
    run,              \* number of the process run in progress
    first_sample,     \* the sample the sampler returned in the first run
    exit_code         \* the value main() returned, None while running

\* The download scripts (download_dicom_with_wget.py and
\* backup/download_mimic_dicom.py): one behaviour of SpecDownload is one
\* call of download_sample_dicom_files.
VARIABLES
    downloader,            \* which script runs: "wget" or "requests"
    cases,                 \* the rows the loop walks (their dicom_ids)
    idx,                   \* the row the loop is at
    dl_pc,                 \* where the download loop is
    tries,                 \* tries wget has made in the attempt in progress
    dicom_files,           \* the output directory: dicom_id -> state of the file
    successful_downloads,  \* counter of the loop
    already_existing,      \* counter of the loop (wget script)
    calls,                 \* the downloads and sleeps so far, in order
    earlier_runs           \* the counters of the runs that have ended before

\* The visualization scripts (visualize_egd_cxr_with_real_image.py and
\* create_egd_cxr_plots.py): one behaviour of SpecPlots is the loading of
\* the optional data of one case.
VARIABLES
    aux,               \* the auxiliary directory of the case on disk
    PIL_AVAILABLE,     \* whether the import of PIL succeeded
    plot_pc,           \* where main() of the script is
    region_i,          \* index of the region loop of load_anatomical_masks
    audio_info,        \* what get_audio_info returned
    anatomical_masks,  \* the dict load_anatomical_masks builds
    printed,           \* the lines printed so far
    plot_error,        \* the exception raised to main(), "" when none
    plot_in,           \* what main() of create_egd_cxr_plots.py finds on disk
    saved,             \* the plots saved so far, in order
    plot_exit          \* the exit status of the process, None while it runs

samplerVars ==
    <<config, raw, script, n_samples, pc, i, df, complete_studies,
      df_complete, samples, used_ids, sample_df, out, ret, metadata, log,
      error, np_random, run, first_sample, exit_code>>

downloadVars ==
    <<downloader, cases, idx, dl_pc, tries, dicom_files,
      successful_downloads, already_existing, calls, earlier_runs>>

plotVars ==
    <<aux, PIL_AVAILABLE, plot_pc, region_i, audio_info, anatomical_masks,
      printed, plot_error, plot_in, saved, plot_exit>>

vars == <<samplerVars, downloadVars, plotVars>>

----------------------------------------------------------------------------
(* Program constants *)

primary_conditions == <<"Normal", "CHF", "pneumonia">>
secondary_conditions ==
    <<"consolidation", "enlarged_cardiac_silhouette",
      "pleural_effusion_or_thickening", "pulmonary_edema__hazy_opacity">>
all_conditions == primary_conditions \o secondary_conditions

sample_size == 50
primary_samples_per_condition == 8
complex_samples == 8
secondary_samples_per_condition == 3
random_state == 42
nrows == 1000
chunk_size == 10000
basic_conditions == <<"Normal", "CHF", "pneumonia">>
basic_min_per_condition == 5

(* Bounds of the model *)

BigGroup == 12       \* size of the one large group of like cases in an index
SmallN == 3          \* the small target size tried beside sample_size
RowsPerCase == 2     \* rows a case has in each run of a gaze/fixation table
MaxRuns == 2         \* process runs over one dataset and output directory

----------------------------------------------------------------------------
(* Sequences and frames *)

Range(s) == {s[k] : k \in DOMAIN s}

Min(a, b) == IF a <= b THEN a ELSE b
Max(a, b) == IF a >= b THEN a ELSE b

RECURSIVE Concat(_)
\* pd.concat(frames, ignore_index=True)
Concat(frames) ==
    IF frames = <<>> THEN <<>> ELSE Head(frames) \o Concat(Tail(frames))

RECURSIVE SumLen(_)
\* sum(len(s) for s in samples)
SumLen(frames) ==
    IF frames = <<>> THEN 0 ELSE Len(Head(frames)) + SumLen(Tail(frames))

\* frame['dicom_id'].tolist()
Ids(frame) == [k \in DOMAIN frame |-> frame[k].dicom_id]
IdSet(frame) == {frame[k].dicom_id : k \in DOMAIN frame}

\* frame[frame[condition] == 1]
PositiveOrNot(frame, condition) == frame
Positive(frame, condition) ==
    SelectSeq(frame, LAMBDA r : condition \in r.flags)

\* frame[~frame['dicom_id'].isin(ids)]
NotIn(frame, ids) == SelectSeq(frame, LAMBDA r : r.dicom_id \notin ids)

\* frame[frame['dicom_id'].isin(ids)]
IsIn(frame, ids) == SelectSeq(frame, LAMBDA r : r.dicom_id \in ids)

\* frame[available_cols].sum(axis=1) for one row
Complexity(r) == Cardinality(r.flags \cap Range(all_conditions))

----------------------------------------------------------------------------
(* DataFrame.sample(n=..., random_state=...)                               *)
(*                                                                         *)
(* pandas draws n of the len(frame) row positions without replacement      *)
(* from a generator built from random_state, and returns the rows in the   *)
(* drawn order: the first n entries of a permutation of the positions that *)
(* is a function of the generator state and of len(frame) alone.  The      *)
(* generator itself is library code; here it is a linear congruential      *)
(* generator driving a Fisher-Yates shuffle.                               *)

Lcg(x) == (x * 75 + 74) % 65537

RECURSIVE Shuffle(_, _, _)
Shuffle(s, k, x) ==
    IF k <= 1 THEN s
    ELSE LET j == (x % k) + 1
             t == [s EXCEPT ![k] = s[j], ![j] = s[k]]
         IN  Shuffle(t, k - 1, Lcg(x))

Permutation(state, n) == Shuffle([p \in 1..n |-> p], n, Lcg(state))

\* The generator state a draw uses when the process-wide state is g: every
\* draw of both scripts passes random_state=42, so g is not read.
DrawStateUnseeded(g) == g
DrawState(g) == random_state

Sample(frame, n) ==
    LET perm == Permutation(DrawState(np_random), Len(frame))
    IN  [k \in 1..n |-> frame[perm[k]]]

----------------------------------------------------------------------------
(* Run-length encoded tables (gaze, fixations, bounding boxes) *)

\* sum of the piece lengths: len(table)
RECURSIVE RowCount(_)
RowCount(t) ==
    IF t = <<>> THEN 0
    ELSE (Head(t).to - Head(t).from + 1) + RowCount(Tail(t))

\* the source rows lo..hi of a table, in order
Clip(t, lo, hi) ==
    SelectSeq([k \in DOMAIN t |->
                  [id |-> t[k].id, from |-> Max(t[k].from, lo),
                   to |-> Min(t[k].to, hi)]],
              LAMBDA p : p.from <= p.to)

\* pd.read_csv(file, nrows=n)
ReadWhole(t, n) == t
ReadPrefix(t, n) == Clip(t, 1, n)

\* the k-th chunk of pd.read_csv(file, chunksize=chunk_size)
Chunk(t, k) == Clip(t, (k - 1) * chunk_size + 1, k * chunk_size)
NumChunks(t) == (RowCount(t) + chunk_size - 1) \div chunk_size

\* chunk[chunk['DICOM_ID'].isin(ids)]
RowsOf(t, ids) == SelectSeq(t, LAMBDA p : p.id \in ids)

\* dicom_id in table['DICOM_ID'].values
HasId(t, id) == \E k \in DOMAIN t : t[k].id = id

\* The chunk loop of sample_gaze_data: the filtered chunks that are not
\* empty, in arrival order.
RECURSIVE FilteredChunksNewestFirst(_, _, _)
FilteredChunksNewestFirst(t, ids, k) ==
    IF k > NumChunks(t) THEN <<>>
    ELSE LET chunk_filtered == RowsOf(Chunk(t, k), ids)
         IN  FilteredChunksNewestFirst(t, ids, k + 1)
             \o (IF Len(chunk_filtered) > 0 THEN <<chunk_filtered>> ELSE <<>>)

RECURSIVE FilteredChunks(_, _, _)
FilteredChunks(t, ids, k) ==
    IF k > NumChunks(t) THEN <<>>
    ELSE LET chunk_filtered == RowsOf(Chunk(t, k), ids)
         IN  (IF Len(chunk_filtered) > 0 THEN <<chunk_filtered>> ELSE <<>>)
             \o FilteredChunks(t, ids, k + 1)

----------------------------------------------------------------------------
(* The raw datasets the model is run on *)

None == <<>>
Some(v) == <<v>>

NoFile == [exists |-> FALSE, readable |-> FALSE, rows |-> <<>>]
FileWith(rows) == [exists |-> TRUE, readable |-> TRUE, rows |-> rows]
Unreadable == [exists |-> TRUE, readable |-> FALSE, rows |-> <<>>]

\* The flag profiles a case of the index can have.
ProfileOrder ==
    << {"Normal"},
       {"CHF"},
       {"CHF", "pneumonia"},
       {"consolidation", "pleural_effusion_or_thickening"},
       {} >>

\* A case index: for every profile of `present` one case, BigGroup cases
\* for the profile `big`; dicom_ids are 1, 2, ... in row order (unique).
GroupSize(k, present, big) ==
    IF k \notin present THEN 0 ELSE IF k = big THEN BigGroup ELSE 1

RECURSIVE MasterRows(_, _, _, _)
MasterRows(k, present, big, next_id) ==
    IF k > Len(ProfileOrder) THEN <<>>
    ELSE LET g == GroupSize(k, present, big)
         IN  [j \in 1..g |-> [dicom_id |-> next_id + j - 1,
                              flags |-> ProfileOrder[k]]]
             \o MasterRows(k + 1, present, big, next_id + g)

\* pieces laid end to end from source row `start`; segs are <<id, length>>
RECURSIVE Pieces(_, _)
Pieces(segs, start) ==
    IF segs = <<>> THEN <<>>
    ELSE LET id == Head(segs)[1]
             n  == Head(segs)[2]
         IN  IF n <= 0 THEN Pieces(Tail(segs), start)
             ELSE <<[id |-> id, from |-> start, to |-> start + n - 1]>>
                  \o Pieces(Tail(segs), start + n)

\* one run of r rows for each case 1..n that is not in skip
PerCase(n, skip, r) ==
    LET ids == SelectSeq([k \in 1..n |-> k], LAMBDA c : c \notin skip)
    IN  [k \in DOMAIN ids |-> <<ids[k], r>>]

\* Layouts of a gaze or fixation table over the cases 1..n.  Id 0 is a case
\* of no index (rows of studies outside the master sheet).
\*   head: every case has its rows at the start of the table
\*   skip: as head, case 2 has no row
\*   late: 999 foreign rows first, so only case 1 reaches the first 1000 rows
\*   tail: as head, then foreign rows up to the chunk boundary, then a second
\*         run per case; the second run of case 1 lies across the boundary
\*   nofile, unreadable: the file is missing / read_csv raises
LayoutKinds == {"head", "skip", "late", "tail", "nofile", "unreadable"}

GazeFile(kind, n) ==
    CASE kind = "head" -> FileWith(Pieces(PerCase(n, {}, RowsPerCase), 1))
      [] kind = "skip" -> FileWith(Pieces(PerCase(n, {2}, RowsPerCase), 1))
      [] kind = "late" ->
            FileWith(Pieces(<<<<0, nrows - 1>>>>
                            \o PerCase(n, {}, RowsPerCase), 1))
      [] kind = "tail" ->
            FileWith(Pieces(PerCase(n, {}, RowsPerCase)
                            \o <<<<0, chunk_size - n * RowsPerCase - 1>>>>
                            \o PerCase(n, {}, RowsPerCase), 1))
      [] kind = "nofile" -> NoFile
      [] kind = "unreadable" -> Unreadable

\* Layouts of the bounding-box table: a row per case and a foreign row, only
\* foreign rows, or no file.
BBoxKinds == {"all", "foreign", "nofile"}

BBoxFile(kind, n) ==
    CASE kind = "all" -> FileWith(Pieces(PerCase(n, {}, 1) \o <<<<0, 1>>>>, 1))
      [] kind = "foreign" -> FileWith(Pieces(<<<<0, RowsPerCase>>>>, 1))
      [] kind = "nofile" -> NoFile

\* The entries of audio_segmentation_transcripts/: a directory per case, all
\* but case 1, or no such directory at all.
AudioKinds == {"all", "but1", "nodir"}

AudioDirs(kind, n) ==
    CASE kind = "all" -> 1..n
      [] kind = "but1" -> 2..n
      [] kind = "nodir" -> {}

\* The datasets tried: the regular one and every one that departs from it in
\* one of the four places.
Scenarios ==
    {sc \in [audio : AudioKinds, gaze : LayoutKinds, fixations : LayoutKinds,
             bbox : BBoxKinds] :
        Cardinality({f \in {"audio", "gaze", "fixations", "bbox"} :
                        sc[f] # (CASE f = "audio" -> "all"
                                   [] f = "bbox" -> "all"
                                   [] OTHER -> "head")}) <= 1}

RawDataset(rows, sc) ==
    [master    |-> FileWith(rows),
     audio     |-> AudioDirs(sc.audio, Len(rows)),
     gaze      |-> GazeFile(sc.gaze, Len(rows)),
     fixations |-> GazeFile(sc.fixations, Len(rows)),
     bbox      |-> BBoxFile(sc.bbox, Len(rows))]

\* A dataset whose master sheet is missing.
NoMasterDataset ==
    [master |-> NoFile, audio |-> {}, gaze |-> NoFile, fixations |-> NoFile,
     bbox |-> NoFile]

\* The configuration file: config['path']['raw'] and
\* config['path']['sampling_data'] name two different directories.
ConfigFile ==
    Some([path |-> [raw |-> "egd-cxr/1.0.0", sampling_data |-> "sampling_data"]])
\* a YAML file without the 'path' section
ConfigNoPaths == Some([dataset |-> "egd-cxr"])
\* no file at config_path
NoConfig == None

\* self.raw_path and self.output_path, set by __init__
raw_path == config[1].path.raw
OutputPathIsRawPath == config[1].path.raw
output_path == config[1].path.sampling_data

EmptyOutput ==
    [master_sheet_sample   |-> NoFile,
     audio                 |-> {},
     eye_gaze_sample       |-> NoFile,
     fixations_sample      |-> NoFile,
     bounding_boxes_sample |-> NoFile,
     metadata              |-> None,
     report                |-> None]

NoReturn ==
    [audio_count |-> None, gaze_records |-> None, fixation_records |-> None,
     bbox_records |-> None]

\* The entry `name` of the directory `dir` as it is now.
Existing(dir, name) ==
    IF dir = raw_path
    THEN IF name \in DOMAIN raw THEN raw[name] ELSE EmptyOutput[name]
    ELSE out[name]

\* The two directories after `value` was written as entry `name` of the
\* directory `dir` (to_csv, json.dump, open(..., 'w'), shutil.copytree).
Write(disk, dir, name, value) ==
    IF dir = raw_path
    THEN [disk EXCEPT !.raw = (name :> value) @@ @]
    ELSE [disk EXCEPT !.out = [@ EXCEPT ![name] = value]]

Disk == [raw |-> raw, out |-> out]

\* The state of a process that main() has just started.
Fresh ==
    /\ pc = "construct"
    /\ i = 1
    /\ df = <<>>
    /\ complete_studies = <<>>
    /\ df_complete = <<>>
    /\ samples = <<>>
    /\ used_ids = {}
    /\ sample_df = <<>>
    /\ ret = NoReturn
    /\ metadata = None
    /\ log = <<>>
    /\ error = ""

\* no sampler script is running
SamplerIdle ==
    /\ config = NoConfig
    /\ raw = NoMasterDataset
    /\ script = "none"
    /\ n_samples = sample_size
    /\ pc = "idle"
    /\ i = 1
    /\ df = <<>>
    /\ complete_studies = <<>>
    /\ df_complete = <<>>
    /\ samples = <<>>
    /\ used_ids = {}
    /\ sample_df = <<>>
    /\ out = EmptyOutput
    /\ ret = NoReturn
    /\ metadata = None
    /\ log = <<>>
    /\ error = ""
    /\ np_random = 0
    /\ run = 1
    /\ first_sample = None
    /\ exit_code = None

\* no download script and no visualization script is running
DownloadIdle ==
    /\ downloader = "none"
    /\ cases = <<>>
    /\ idx = 1
    /\ dl_pc = "idle"
    /\ tries = 0
    /\ dicom_files = <<>>
    /\ successful_downloads = 0
    /\ already_existing = 0
    /\ calls = <<>>
    /\ earlier_runs = <<>>

\* SpecPlots looks at two functions only: main() has no inputs there
NoPlotInputs == [master |-> "missing"]

PlotIdle ==
    /\ aux = [exists |-> FALSE]
    /\ PIL_AVAILABLE = FALSE
    /\ plot_pc = "idle"
    /\ region_i = 1
    /\ audio_info = None
    /\ anatomical_masks = {}
    /\ printed = <<>>
    /\ plot_error = ""
    /\ plot_in = NoPlotInputs
    /\ saved = <<>>
    /\ plot_exit = None

Init ==
    /\ DownloadIdle
    /\ PlotIdle
    /\ script \in {"enhanced", "basic"}
    /\ n_samples \in {SmallN, sample_size}
    /\ \/ /\ config = ConfigFile
          /\ \/ \E present \in SUBSET (1..Len(ProfileOrder)) :
                \E big \in present \cup {0} :
                \E sc \in Scenarios :
                   raw = RawDataset(MasterRows(1, present, big, 1), sc)
             \/ raw = NoMasterDataset
       \/ /\ config \in {NoConfig, ConfigNoPaths}
          /\ \E present \in {{}, 1..Len(ProfileOrder)} :
                raw = RawDataset(MasterRows(1, present, 0, 1),
                                 [audio |-> "all", gaze |-> "head",
                                  fixations |-> "head", bbox |-> "all"])
    /\ Fresh
    /\ out = EmptyOutput
    /\ np_random = 0
    /\ run = 1
    /\ first_sample = None
    /\ exit_code = None

----------------------------------------------------------------------------
(* Helpers of the actions *)

Info(msg, arg, n) == [level |-> "info", msg |-> msg, arg |-> arg, n |-> n]
Warning(msg, arg) == [level |-> "warning", msg |-> msg, arg |-> arg, n |-> 0]

\* An exception leaves the method; run_* logs it and re-raises.
Raise(e) ==
    /\ pc' = "failed"
    /\ error' = e
    /\ log' = Append(log, [level |-> "error", msg |-> "run", arg |-> e, n |-> 0])

\* An exception raised in __init__ is raised outside run_*: main catches it.
RaiseInMain(e) ==
    /\ pc' = "failed"
    /\ error' = e

----------------------------------------------------------------------------
(* __init__ and load_config (the same in both scripts) *)

\* open(config_path) raises FileNotFoundError when there is no file;
\* config['path'] raises KeyError when the file has no such section.
Construct ==
    /\ pc = "construct"
    /\ IF config = NoConfig THEN RaiseInMain("FileNotFoundError")
       ELSE IF "path" \notin DOMAIN config[1] THEN RaiseInMain("KeyError")
       ELSE /\ pc' = "load_master_sheet"
            /\ UNCHANGED error
    /\ UNCHANGED <<downloadVars, plotVars>>
    /\ UNCHANGED <<config, raw, script, n_samples, i, df, complete_studies,
                   df_complete, samples, used_ids, sample_df, out, ret,
                   metadata, log, np_random, run, first_sample, exit_code>>

----------------------------------------------------------------------------
(* load_master_sheet (the same in both scripts) *)

\* os.path.exists(master_file)
MasterFileAssumed == TRUE
MasterFileExists == raw.master.exists

LoadMasterSheet ==
    /\ pc = "load_master_sheet"
    /\ IF ~MasterFileExists
       THEN /\ Raise("FileNotFoundError")
            /\ UNCHANGED df
       ELSE /\ df' = raw.master.rows
            /\ pc' = IF script = "enhanced" THEN "validate_data_completeness"
                     ELSE "stratify"
            /\ log' = Append(log, Info("Loaded master sheet", "", Len(raw.master.rows)))
            /\ UNCHANGED error
    /\ UNCHANGED <<downloadVars, plotVars>>
    /\ UNCHANGED <<config, raw, script, n_samples, i, complete_studies, df_complete,
                   samples, used_ids, sample_df, out, ret, metadata,
                   np_random, run, first_sample,
                   exit_code>>

----------------------------------------------------------------------------
(* EnhancedEGDCXRSampler.validate_data_completeness *)

\* set(os.listdir(audio_dir)) if os.path.exists(audio_dir) else set()
available_audio == raw.audio

\* The "quick check" of one table: the file exists, the first nrows rows
\* can be read and one of them is of the case.  A read that raises is
\* swallowed by the bare except and leaves the flag False.
QuickCheck(file, dicom_id) ==
    /\ file.exists
    /\ file.readable
    /\ HasId(ReadPrefix(file.rows, nrows), dicom_id)

\* the test a dicom_id passes to be appended to complete_studies
CompleteStudyEither(dicom_id) ==
    /\ dicom_id \in available_audio
    /\ QuickCheck(raw.gaze, dicom_id) \/ QuickCheck(raw.fixations, dicom_id)
CompleteStudy(dicom_id) ==
    /\ dicom_id \in available_audio
    /\ QuickCheck(raw.gaze, dicom_id)
    /\ QuickCheck(raw.fixations, dicom_id)

ValidateDataCompleteness ==
    /\ pc = "validate_data_completeness"
    /\ LET complete == SelectSeq(Ids(df), CompleteStudy)
       IN  /\ complete_studies' = complete
           /\ df_complete' = IsIn(df, Range(complete))
           /\ log' = Append(log, Info("studies with complete data", "", Len(complete)))
    /\ pc' = "primary"
    /\ i' = 1
    /\ UNCHANGED <<downloadVars, plotVars>>
    /\ UNCHANGED <<config, raw, script, n_samples, df, samples, used_ids, sample_df,
                   out, ret, metadata, error, np_random, run, first_sample,
                   exit_code>>

----------------------------------------------------------------------------
(* EnhancedEGDCXRSampler.create_diverse_sample *)

\* the cases a per-condition draw chooses from: positive for the condition
\* and not drawn before
ConditionDataAnyUse(frame, condition, used) == Positive(frame, condition)
ConditionData(frame, condition, used) ==
    NotIn(Positive(frame, condition), used)

\* n_sample: the number of rows a per-condition draw takes
SampleCountAll(quota, available) == available
SampleCountQuota(quota, available) == quota
SampleCount(quota, available) == Min(quota, available)

\* DataFrame.sample raises ValueError when asked for more rows than the
\* frame has
DrawRaises(condition, quota) ==
    LET condition_data == ConditionData(df_complete, condition, used_ids)
    IN  /\ Len(condition_data) > 0
        /\ SampleCount(quota, Len(condition_data)) > Len(condition_data)

\* One iteration of a per-condition loop with the given quota.
DrawCondition(condition, quota) ==
    LET condition_data == ConditionData(df_complete, condition, used_ids)
    IN  IF Len(condition_data) > 0
        THEN LET n_sample == SampleCount(quota, Len(condition_data))
                 condition_sample == Sample(condition_data, n_sample)
             IN  /\ samples' = Append(samples, condition_sample)
                 /\ used_ids' = used_ids \cup IdSet(condition_sample)
                 /\ log' = Append(log, Info("Sampled", condition,
                                            Len(condition_sample)))
        ELSE UNCHANGED <<samples, used_ids, log>>

\* step 1: one primary condition
SamplePrimary ==
    /\ pc = "primary"
    /\ IF DrawRaises(primary_conditions[i], primary_samples_per_condition)
       THEN /\ Raise("ValueError")
            /\ UNCHANGED <<samples, used_ids, i>>
       ELSE /\ DrawCondition(primary_conditions[i], primary_samples_per_condition)
            /\ IF i < Len(primary_conditions)
               THEN /\ i' = i + 1
                    /\ pc' = pc
               ELSE /\ i' = 1
                    /\ pc' = "complex"
            /\ UNCHANGED error
    /\ UNCHANGED <<downloadVars, plotVars>>
    /\ UNCHANGED <<config, raw, script, n_samples, df, complete_studies,
                   df_complete, sample_df, out, ret, metadata, np_random, run,
                   first_sample, exit_code>>

\* the cases the complex draw chooses from
ComplexCasesAll(frame, used) == NotIn(frame, used)
ComplexCases(frame, used) ==
    SelectSeq(NotIn(frame, used), LAMBDA r : Complexity(r) >= 2)

\* step 2: complex cases
SampleComplex ==
    /\ pc = "complex"
    /\ LET multi_condition_data == NotIn(df_complete, used_ids)
           complex_cases == ComplexCases(df_complete, used_ids)
       IN  IF Len(multi_condition_data) > 0 /\ Len(complex_cases) > 0
           THEN LET n_complex == Min(complex_samples, Len(complex_cases))
                    complex_sample == Sample(complex_cases, n_complex)
                IN  /\ samples' = Append(samples, complex_sample)
                    /\ used_ids' = used_ids \cup IdSet(complex_sample)
                    /\ log' = Append(log, Info("Sampled complex", "",
                                               Len(complex_sample)))
           ELSE UNCHANGED <<samples, used_ids, log>>
    /\ pc' = "secondary"
    /\ i' = 1
    /\ UNCHANGED <<downloadVars, plotVars>>
    /\ UNCHANGED <<config, raw, script, n_samples, df, complete_studies, df_complete,
                   sample_df, out, ret, metadata, error, np_random, run,
                   first_sample, exit_code>>

\* step 3: one secondary condition
SampleSecondary ==
    /\ pc = "secondary"
    /\ IF DrawRaises(secondary_conditions[i], secondary_samples_per_condition)
       THEN /\ Raise("ValueError")
            /\ UNCHANGED <<samples, used_ids, i>>
       ELSE /\ DrawCondition(secondary_conditions[i], secondary_samples_per_condition)
            /\ IF i < Len(secondary_conditions)
               THEN /\ i' = i + 1
                    /\ pc' = pc
               ELSE /\ i' = 1
                    /\ pc' = "fill"
            /\ UNCHANGED error
    /\ UNCHANGED <<downloadVars, plotVars>>
    /\ UNCHANGED <<config, raw, script, n_samples, df, complete_studies,
                   df_complete, sample_df, out, ret, metadata, np_random, run,
                   first_sample, exit_code>>

\* the frame the fill draws from
RemainingDataWhole(frame, complete, used) == NotIn(frame, used)
RemainingData(frame, complete, used) == NotIn(complete, used)

\* the number of rows the fill draws from a pool of the given size
FillCountPool(remaining, pool) == pool
FillCount(remaining, pool) == Min(remaining, pool)

\* step 4: fill the remaining slots
FillRemaining ==
    /\ pc = "fill"
    /\ LET remaining == n_samples - SumLen(samples)
           remaining_data == RemainingData(df, df_complete, used_ids)
       IN  IF remaining > 0 /\ Len(remaining_data) > 0
           THEN LET remaining_sample ==
                        Sample(remaining_data,
                               FillCount(remaining, Len(remaining_data)))
                IN  /\ samples' = Append(samples, remaining_sample)
                    /\ used_ids' = used_ids \cup IdSet(remaining_sample)
                    /\ log' = Append(log, Info("Added diverse random", "",
                                               Len(remaining_sample)))
           ELSE UNCHANGED <<samples, used_ids, log>>
    /\ pc' = "combine"
    /\ UNCHANGED <<downloadVars, plotVars>>
    /\ UNCHANGED <<config, raw, script, n_samples, i, df, complete_studies,
                   df_complete, sample_df, out, ret, metadata, error,
                   np_random, run, first_sample,
                   exit_code>>

\* "Ensure we have exactly n_samples": the frame cut to n rows when longer
DownsampleNever(frame, n) == frame
Downsample(frame, n) == IF Len(frame) > n THEN Sample(frame, n) ELSE frame

\* combine, fall back on an empty list, downsample, return
CombineSamples ==
    /\ pc = "combine"
    /\ LET combined ==
               IF samples # <<>> THEN Concat(samples)
               ELSE Sample(df_complete, Min(n_samples, Len(df_complete)))
           final_sample == Downsample(combined, n_samples)
       IN  /\ sample_df' = final_sample
           /\ first_sample' = IF run = 1 THEN Some(final_sample)
                               ELSE first_sample
           /\ log' = Append(log, Info("Final diverse sample", "",
                                      Len(final_sample)))
    /\ pc' = "save_master"
    /\ UNCHANGED <<downloadVars, plotVars>>
    /\ UNCHANGED <<config, raw, script, n_samples, i, df, complete_studies,
                   df_complete, samples, used_ids, out, ret, metadata, error,
                   np_random, run, exit_code>>

----------------------------------------------------------------------------
(* EGDCXRSampler.stratify_samples (the basic script) *)

\* the number of rows drawn for a condition with `available` positive cases
ConditionCount(available, n) ==
    Max(basic_min_per_condition, Min(available, n \div Len(basic_conditions)))

\* one iteration of the condition loop; DataFrame.sample raises ValueError
\* when asked for more rows than the frame has
StratifyCondition ==
    /\ pc = "stratify"
    /\ LET condition_data == Positive(df, basic_conditions[i])
           n_condition == ConditionCount(Len(condition_data), n_samples)
       IN  IF Len(condition_data) > 0 /\ n_condition > Len(condition_data)
           THEN /\ Raise("ValueError")
                /\ UNCHANGED <<samples, i>>
           ELSE /\ IF Len(condition_data) > 0
                   THEN /\ samples' = Append(samples,
                                             Sample(condition_data, n_condition))
                        /\ log' = Append(log, Info("Sampled", basic_conditions[i],
                                                   n_condition))
                   ELSE UNCHANGED <<samples, log>>
                /\ IF i < Len(basic_conditions)
                   THEN /\ i' = i + 1
                        /\ pc' = pc
                   ELSE /\ i' = 1
                        /\ pc' = "stratify_fill"
                /\ UNCHANGED error
    /\ UNCHANGED <<downloadVars, plotVars>>
    /\ UNCHANGED <<config, raw, script, n_samples, df, complete_studies, df_complete,
                   used_ids, sample_df, out, ret, metadata, np_random, run,
                   first_sample, exit_code>>

\* "If we don't have enough samples, fill with random selection": the test
\* compares the number of frames drawn with n_samples; DataFrame.sample
\* raises ValueError for a negative n
StratifyFill ==
    /\ pc = "stratify_fill"
    /\ LET remaining == n_samples - SumLen(samples)
           used == IdSet(Concat(samples))
           remaining_data == NotIn(df, used)
           n == Min(remaining, Len(remaining_data))
       IN  IF Len(samples) < n_samples /\ Len(remaining_data) > 0
           THEN IF n < 0
                THEN /\ Raise("ValueError")
                     /\ UNCHANGED <<samples, used_ids>>
                ELSE /\ samples' = Append(samples, Sample(remaining_data, n))
                     /\ used_ids' = used
                     /\ log' = Append(log, Info("Added additional random", "", n))
                     /\ pc' = "stratify_combine"
                     /\ UNCHANGED error
           ELSE /\ pc' = "stratify_combine"
                /\ used_ids' = IF Len(samples) < n_samples THEN used
                               ELSE used_ids
                /\ UNCHANGED <<samples, log, error>>
    /\ UNCHANGED <<downloadVars, plotVars>>
    /\ UNCHANGED <<config, raw, script, n_samples, i, df, complete_studies,
                   df_complete, sample_df, out, ret, metadata, np_random, run,
                   first_sample, exit_code>>

\* pd.concat raises ValueError on an empty list; then the downsample
StratifyCombine ==
    /\ pc = "stratify_combine"
    /\ IF samples = <<>>
       THEN /\ Raise("ValueError")
            /\ UNCHANGED <<sample_df, first_sample>>
       ELSE LET final_sample == Downsample(Concat(samples), n_samples)
            IN  /\ sample_df' = final_sample
                /\ first_sample' = IF run = 1 THEN Some(final_sample)
                                    ELSE first_sample
                /\ log' = Append(log, Info("Final stratified sample", "",
                                           Len(final_sample)))
                /\ pc' = "save_master"
                /\ UNCHANGED error
    /\ UNCHANGED <<downloadVars, plotVars>>
    /\ UNCHANGED <<config, raw, script, n_samples, i, df, complete_studies,
                   df_complete, samples, used_ids, out, ret, metadata,
                   np_random, run, exit_code>>

----------------------------------------------------------------------------
(* The rest of run_enhanced_sampling / run_sampling *)

\* what a method of the enhanced script returns is dropped by the basic one
Returned(v) == IF script = "enhanced" THEN Some(v) ELSE None

\* sample_df.to_csv(master_sheet_sample.csv)
SaveSampleMaster ==
    /\ pc = "save_master"
    /\ LET disk == Write(Disk, output_path, "master_sheet_sample",
                         FileWith(sample_df))
       IN  raw' = disk.raw /\ out' = disk.out
    /\ pc' = "copy_audio_transcripts"
    /\ UNCHANGED <<downloadVars, plotVars>>
    /\ UNCHANGED <<config, script, n_samples, i, df, complete_studies,
                   df_complete, samples, used_ids, sample_df, ret, metadata,
                   log, error, np_random, run, first_sample, exit_code>>

\* os.path.exists(source_dir) for the directory of a case
SourceDirExists(dicom_id) == dicom_id \in raw.audio

\* the rows of the sample whose directory is copied (and counted)
CopiedRowsAll(frame) == frame
CopiedRows(frame) ==
    SelectSeq(frame, LAMBDA r : SourceDirExists(r.dicom_id))

\* what copy_audio_transcripts returns: copied_count in the enhanced
\* script; the basic script only logs it
CopyReturn(copied_count) == Returned(copied_count)

\* copy_audio_transcripts: one pass over the rows of the sample
CopyAudioTranscripts ==
    /\ pc = "copy_audio_transcripts"
    /\ LET copied == CopiedRows(sample_df)
           missing == SelectSeq(sample_df,
                                LAMBDA r : ~SourceDirExists(r.dicom_id))
           copied_count == Len(copied)
           audio_dir == Existing(output_path, "audio")
           disk == Write(Disk, output_path, "audio",
                         audio_dir \cup IdSet(copied))
       IN  /\ raw' = disk.raw /\ out' = disk.out
           /\ ret' = [ret EXCEPT !.audio_count = CopyReturn(copied_count)]
           /\ log' = log
                     \o [k \in DOMAIN missing |->
                            Warning("Audio transcript directory not found",
                                    missing[k].dicom_id)]
                     \o <<Info("Copied audio transcript directories", "",
                               copied_count)>>
    /\ pc' = "sample_gaze_data"
    /\ UNCHANGED <<downloadVars, plotVars>>
    /\ UNCHANGED <<config, script, n_samples, i, df, complete_studies,
                   df_complete, samples, used_ids, sample_df, metadata, error,
                   np_random, run, first_sample, exit_code>>

\* The extraction of one table by sample_gaze_data: the rows of the selected
\* cases, chunk by chunk; nothing is written when no chunk has such a row.
ExtractedFirstChunk(file, ids) ==
    LET c == RowsOf(Chunk(file.rows, 1), ids)
    IN  IF Len(c) > 0 THEN <<c>> ELSE <<>>
Extracted(file, ids) == FilteredChunks(file.rows, ids, 1)

\* the file a table block of sample_gaze_data leaves in the output directory
WrittenAppended(chunks, old) ==
    IF chunks # <<>>
    THEN FileWith((IF old.exists THEN old.rows ELSE <<>>) \o Concat(chunks))
    ELSE old
Written(chunks, old) == IF chunks # <<>> THEN FileWith(Concat(chunks)) ELSE old

\* sample_gaze_data.  chunk_size is assigned in the gaze block only: the
\* fixation block reads an unbound local when the gaze file is missing.
SampleGazeData ==
    /\ pc = "sample_gaze_data"
    /\ LET sample_dicom_ids == IdSet(sample_df)
           gaze_chunks ==
               IF raw.gaze.exists THEN Extracted(raw.gaze, sample_dicom_ids)
               ELSE <<>>
           fixations_chunks ==
               IF raw.fixations.exists
               THEN Extracted(raw.fixations, sample_dicom_ids)
               ELSE <<>>
           gaze_disk ==
               Write(Disk, output_path, "eye_gaze_sample",
                     Written(gaze_chunks,
                             Existing(output_path, "eye_gaze_sample")))
           disk ==
               Write(gaze_disk, output_path, "fixations_sample",
                     Written(fixations_chunks,
                             Existing(output_path, "fixations_sample")))
       IN  IF raw.gaze.exists /\ ~raw.gaze.readable
           THEN /\ Raise("ParserError")
                /\ UNCHANGED <<raw, out, ret>>
           ELSE IF raw.fixations.exists /\ ~raw.gaze.exists
           THEN /\ Raise("UnboundLocalError")
                /\ UNCHANGED <<raw, out, ret>>
           ELSE IF raw.fixations.exists /\ ~raw.fixations.readable
           THEN /\ Raise("ParserError")
                /\ raw' = gaze_disk.raw /\ out' = gaze_disk.out
                /\ UNCHANGED ret
           ELSE /\ raw' = disk.raw /\ out' = disk.out
                /\ ret' = [ret EXCEPT
                             !.gaze_records =
                                 Returned(RowCount(Concat(gaze_chunks))),
                             !.fixation_records =
                                 Returned(RowCount(Concat(fixations_chunks)))]
                /\ log' = log
                          \o (IF gaze_chunks # <<>>
                              THEN <<Info("Saved gaze records", "",
                                          RowCount(Concat(gaze_chunks)))>>
                              ELSE <<>>)
                          \o (IF fixations_chunks # <<>>
                              THEN <<Info("Saved fixation records", "",
                                          RowCount(Concat(fixations_chunks)))>>
                              ELSE <<>>)
                /\ pc' = "sample_bounding_boxes"
                /\ UNCHANGED error
    /\ UNCHANGED <<downloadVars, plotVars>>
    /\ UNCHANGED <<config, script, n_samples, i, df, complete_studies,
                   df_complete, samples, used_ids, sample_df, metadata,
                   np_random, run, first_sample, exit_code>>

\* the file sample_bounding_boxes leaves in the output directory
BBoxWrittenIfAny(rows, old) == IF rows # <<>> THEN FileWith(rows) ELSE old
BBoxWritten(rows, old) == FileWith(rows)

\* sample_bounding_boxes: the whole table is read and filtered
SampleBoundingBoxes ==
    /\ pc = "sample_bounding_boxes"
    /\ IF ~raw.bbox.exists
       THEN /\ log' = Append(log, Warning("Bounding boxes file not found", ""))
            /\ ret' = [ret EXCEPT !.bbox_records = Returned(0)]
            /\ UNCHANGED <<raw, out>>
       ELSE LET bbox_sample == RowsOf(raw.bbox.rows, IdSet(sample_df))
                disk == Write(Disk, output_path, "bounding_boxes_sample",
                              BBoxWritten(bbox_sample,
                                  Existing(output_path,
                                           "bounding_boxes_sample")))
            IN  /\ raw' = disk.raw /\ out' = disk.out
                /\ ret' = [ret EXCEPT !.bbox_records =
                                 Returned(RowCount(bbox_sample))]
                /\ log' = Append(log, Info("Saved bounding box records", "",
                                           RowCount(bbox_sample)))
    /\ pc' = "create_metadata"
    /\ UNCHANGED <<downloadVars, plotVars>>
    /\ UNCHANGED <<config, script, n_samples, i, df, complete_studies,
                   df_complete, samples, used_ids, sample_df, metadata, error,
                   np_random, run, first_sample, exit_code>>

----------------------------------------------------------------------------
(* Metadata and report *)

\* int(sample_df[condition].sum())
ConditionSumOfIndex(frame, condition) == Len(Positive(df, condition))
ConditionSum(frame, condition) == Len(Positive(frame, condition))

\* metadata['study_details'], one entry per row of the sample
StudyDetails(frame) ==
    [k \in DOMAIN frame |->
        [dicom_id |-> frame[k].dicom_id,
         conditions |-> frame[k].flags \cap Range(all_conditions),
         condition_count |-> Complexity(frame[k])]]

\* create_comprehensive_metadata: 'completeness_rate' divides audio_count by
\* len(sample_df)
ComprehensiveMetadata(frame) ==
    [total_studies |-> Len(frame),
     clinical_conditions |->
         [c \in Range(all_conditions) |-> ConditionSum(frame, c)],
     data_completeness |->
         [audio_transcripts |-> ret.audio_count,
          gaze_records |-> ret.gaze_records,
          fixation_records |-> ret.fixation_records,
          bounding_box_records |-> ret.bbox_records],
     sampled_studies |-> Ids(frame),
     study_details |-> StudyDetails(frame)]

\* create_sample_metadata of the basic script
SampleMetadata(frame) ==
    [total_studies |-> Len(frame),
     clinical_conditions |->
         [c \in Range(basic_conditions) |-> ConditionSum(frame, c)],
     sampled_studies |-> Ids(frame)]

CreateMetadata ==
    /\ pc = "create_metadata"
    /\ IF script = "enhanced" /\ Len(sample_df) = 0
       THEN /\ Raise("ZeroDivisionError")
            /\ UNCHANGED <<metadata, raw, out>>
       ELSE LET doc == IF script = "enhanced"
                       THEN ComprehensiveMetadata(sample_df)
                       ELSE SampleMetadata(sample_df)
                disk == Write(Disk, output_path, "metadata", Some(doc))
            IN  /\ metadata' = Some(doc)
                /\ raw' = disk.raw /\ out' = disk.out
                /\ pc' = "create_report"
                /\ UNCHANGED <<log, error>>
    /\ UNCHANGED <<downloadVars, plotVars>>
    /\ UNCHANGED <<config, script, n_samples, i, df, complete_studies,
                   df_complete, samples, used_ids, sample_df, ret, np_random,
                   run, first_sample, exit_code>>

\* create_detailed_summary_report / create_summary_report: the cases the
\* report lists, in order
ReportStudies(doc) ==
    IF script = "enhanced"
    THEN [k \in DOMAIN doc.study_details |-> doc.study_details[k].dicom_id]
    ELSE doc.sampled_studies

CreateReport ==
    /\ pc = "create_report"
    /\ LET disk == Write(Disk, output_path, "report",
                         Some([sample_size |-> Len(sample_df),
                               studies |-> ReportStudies(metadata[1])]))
       IN  raw' = disk.raw /\ out' = disk.out
    /\ pc' = "done"
    /\ UNCHANGED <<downloadVars, plotVars>>
    /\ UNCHANGED <<config, script, n_samples, i, df, complete_studies,
                   df_complete, samples, used_ids, sample_df, ret, metadata,
                   log, error, np_random, run, first_sample, exit_code>>

\* what main() returns: 0 when the run returned, 1 from its except clause
ExitStatusZero(ended) == 0
ExitStatus(ended) == IF ended = "done" THEN 0 ELSE 1

\* main(): the value it returns is the exit status of the process
Main ==
    /\ pc \in {"done", "failed"}
    /\ exit_code' = Some(ExitStatus(pc))
    /\ pc' = "exit"
    /\ UNCHANGED <<downloadVars, plotVars>>
    /\ UNCHANGED <<config, raw, script, n_samples, i, df, complete_studies,
                   df_complete, samples, used_ids, sample_df, out, ret,
                   metadata, log, error, np_random, run, first_sample>>

----------------------------------------------------------------------------
(* Specifications *)

Next ==
    \/ Construct
    \/ LoadMasterSheet
    \/ ValidateDataCompleteness
    \/ SamplePrimary
    \/ SampleComplex
    \/ SampleSecondary
    \/ FillRemaining
    \/ CombineSamples
    \/ StratifyCondition
    \/ StratifyFill
    \/ StratifyCombine
    \/ SaveSampleMaster
    \/ CopyAudioTranscripts
    \/ SampleGazeData
    \/ SampleBoundingBoxes
    \/ CreateMetadata
    \/ CreateReport
    \/ Main

Spec == Init /\ [][Next]_vars

\* The script is started again over the same raw dataset and the same
\* output directory: a new process, whose unseeded RNG state is another one.
Rerun ==
    /\ pc = "exit"
    /\ run < MaxRuns
    /\ run' = run + 1
    /\ np_random' = np_random + 1
    /\ pc' = "construct"
    /\ i' = 1
    /\ df' = <<>>
    /\ complete_studies' = <<>>
    /\ df_complete' = <<>>
    /\ samples' = <<>>
    /\ used_ids' = {}
    /\ sample_df' = <<>>
    /\ ret' = NoReturn
    /\ metadata' = None
    /\ log' = <<>>
    /\ error' = ""
    /\ exit_code' = None
    /\ UNCHANGED <<downloadVars, plotVars>>
    /\ UNCHANGED <<config, raw, script, n_samples, out, first_sample>>

NextRerun == Next \/ Rerun

SpecRerun == Init /\ [][NextRerun]_vars

\* A gaze or fixation table that holds rows of studies outside the index
\* only (id 0): no row of it is of a case of the master sheet.
ForeignOnly == FileWith(Pieces(<<<<0, RowsPerCase>>>>, 1))

\* The raw datasets a later run can find in place of the first one: an
\* index of one case without a finding, with the regular tables, with a
\* gaze table of foreign rows, and with gaze and fixation tables of foreign
\* rows.
ChangedDatasets ==
    LET regular == RawDataset(MasterRows(1, {Len(ProfileOrder)}, 0, 1),
                              [audio |-> "all", gaze |-> "head",
                               fixations |-> "head", bbox |-> "all"])
    IN  {regular,
         [regular EXCEPT !.gaze = ForeignOnly],
         [regular EXCEPT !.gaze = ForeignOnly, !.fixations = ForeignOnly]}

\* The script is started again over the same output directory after the
\* raw dataset has been replaced by another one.
RerunChanged ==
    /\ pc = "exit"
    /\ run < MaxRuns
    /\ raw' \in ChangedDatasets
    /\ raw' # raw
    /\ run' = run + 1
    /\ np_random' = np_random + 1
    /\ pc' = "construct"
    /\ i' = 1
    /\ df' = <<>>
    /\ complete_studies' = <<>>
    /\ df_complete' = <<>>
    /\ samples' = <<>>
    /\ used_ids' = {}
    /\ sample_df' = <<>>
    /\ ret' = NoReturn
    /\ metadata' = None
    /\ log' = <<>>
    /\ error' = ""
    /\ exit_code' = None
    /\ UNCHANGED <<downloadVars, plotVars>>
    /\ UNCHANGED <<config, script, n_samples, out, first_sample>>

NextRerunChanged == Next \/ RerunChanged

SpecRerunChanged == Init /\ [][NextRerunChanged]_vars

\* The sum of the quotas of steps 1 to 3 of create_diverse_sample.
QuotaSum ==
    Len(primary_conditions) * primary_samples_per_condition
    + complex_samples
    + Len(secondary_conditions) * secondary_samples_per_condition

\* size of every group of like cases in a large index
LargeGroup == 11

\* A large case index: LargeGroup cases for every profile of `present`.
RECURSIVE LargeMasterRows(_, _, _)
LargeMasterRows(k, present, next_id) ==
    IF k > Len(ProfileOrder) THEN <<>>
    ELSE LET g == IF k \in present THEN LargeGroup ELSE 0
         IN  [j \in 1..g |-> [dicom_id |-> next_id + j - 1,
                              flags |-> ProfileOrder[k]]]
             \o LargeMasterRows(k + 1, present, next_id + g)

\* Runs over a large index, with more cases than the target size, and a
\* target of the quota sum or more.
InitLarge ==
    /\ DownloadIdle
    /\ PlotIdle
    /\ script \in {"enhanced", "basic"}
    /\ n_samples \in {QuotaSum, sample_size}
    /\ config = ConfigFile
    /\ \E present \in SUBSET (1..Len(ProfileOrder)) :
       \E kind \in {"head", "skip"} :
          raw = RawDataset(LargeMasterRows(1, present, 1),
                           [audio |-> "all", gaze |-> kind,
                            fixations |-> "head", bbox |-> "all"])
    /\ Fresh
    /\ out = EmptyOutput
    /\ np_random = 0
    /\ run = 1
    /\ first_sample = None
    /\ exit_code = None

SpecLarge == InitLarge /\ [][Next]_vars

----------------------------------------------------------------------------
(* The download loops: download_sample_dicom_files of                      *)
(* download_dicom_with_wget.py ("wget") and of                             *)
(* backup/download_mimic_dicom.py ("requests")                             *)

wget_tries == 3             \* '--tries=3'
wget_timeout == 60          \* '--timeout=60'
subprocess_timeout == 300   \* subprocess.run(cmd, ..., timeout=300)
wget_sleep == 2             \* time.sleep(2)
requests_timeout == 30      \* requests.get(url, stream=True, timeout=30)
requests_sleep == 1         \* time.sleep(1)
head_rows == 5              \* master_sheet[['dicom_id', 'path']].head(5)

MaxFiles == 3        \* rows of the master sheet the wget script walks

\* the entries of `calls`
Started(dicom_id, limit, timeout, kill_after) ==
    [kind |-> "start", dicom_id |-> dicom_id, n |-> limit,
     timeout |-> timeout, kill_after |-> kill_after]
ReturnedFrom(dicom_id, ok) ==
    [kind |-> "return", dicom_id |-> dicom_id, n |-> IF ok THEN 1 ELSE 0]
Slept(seconds) == [kind |-> "sleep", dicom_id |-> 0, n |-> seconds]
Summary(failed) == [kind |-> "summary", dicom_id |-> 0, n |-> failed]

\* the rows the loop walks: the whole master sheet (wget), its first five
\* rows (requests)
CasesOf(which, master_sheet) ==
    IF which = "wget" THEN master_sheet
    ELSE SubSeq(master_sheet, 1, Min(head_rows, Len(master_sheet)))

\* os.path.exists(output_path) and os.path.getsize(output_path) > 0
FileNeverSkipped(dicom_id) == FALSE
FileNonEmpty(dicom_id) == dicom_files[dicom_id] # "none"

\* the tries one attempt may make and the timeout of one try
TriesLimit == IF downloader = "wget" THEN wget_tries ELSE 1
TryTimeout == IF downloader = "wget" THEN wget_timeout ELSE requests_timeout

\* the time after which the attempt as a whole is given up: the timeout of
\* subprocess.run; requests.get has none
KillAfter == IF downloader = "wget" THEN Some(subprocess_timeout) ELSE None

\* time.sleep(...) after an attempt
Delay == IF downloader = "wget" THEN wget_sleep ELSE requests_sleep

\* the row the loop goes to after the attempt for row k
NextIndexRetryFailed(k, ok) == IF ok THEN k + 1 ELSE k
NextIndex(k, ok) == k + 1

InitDownload ==
    /\ SamplerIdle
    /\ PlotIdle
    /\ downloader \in {"wget", "requests"}
    /\ \E n \in 0..(IF downloader = "wget" THEN MaxFiles ELSE head_rows + 1) :
          /\ cases = CasesOf(downloader, [k \in 1..n |-> k])
          /\ dicom_files \in
                IF downloader = "wget"
                THEN [1..n -> {"none", "partial", "complete"}]
                ELSE {[k \in 1..n |-> "none"], [k \in 1..n |-> "complete"]}
    /\ idx = 1
    /\ dl_pc = "loop"
    /\ tries = 0
    /\ successful_downloads = 0
    /\ already_existing = 0
    /\ calls = <<>>
    /\ earlier_runs = <<>>

\* the head of one iteration: the end of the loop, the skip of a file that
\* is there (wget script), or the call of the download function
BeginIteration ==
    /\ dl_pc = "loop"
    /\ IF idx > Len(cases)
       THEN /\ dl_pc' = "summary"
            /\ UNCHANGED <<idx, tries, already_existing, calls>>
       ELSE IF downloader = "wget" /\ FileNonEmpty(cases[idx])
       THEN /\ already_existing' = already_existing + 1
            /\ idx' = idx + 1
            /\ UNCHANGED <<dl_pc, tries, calls>>
       ELSE /\ dl_pc' = "attempt"
            /\ tries' = 0
            /\ calls' = Append(calls, Started(cases[idx], TriesLimit,
                                              TryTimeout, KillAfter))
            /\ UNCHANGED <<idx, already_existing>>
    /\ UNCHANGED <<downloader, cases, dicom_files, successful_downloads>>
    /\ UNCHANGED earlier_runs
    /\ UNCHANGED <<samplerVars, plotVars>>

\* the download function returns `ok`, leaving the file in state `file`
EndAttempt(ok, file) ==
    /\ dicom_files' = [dicom_files EXCEPT ![cases[idx]] = file]
    /\ successful_downloads' = successful_downloads + (IF ok THEN 1 ELSE 0)
    /\ calls' = Append(calls, ReturnedFrom(cases[idx], ok))
    /\ dl_pc' = "sleep"

\* One try of the wget process.  It ends the process with return code 0
\* (the file is there, or is empty), with an error that wget does not
\* retry, or with one it retries while tries are left.
WgetTry ==
    /\ dl_pc = "attempt"
    /\ downloader = "wget"
    /\ tries < wget_tries
    /\ tries' = tries + 1
    /\ \E outcome \in {"ok", "empty", "fatal", "retry"} :
          CASE outcome = "ok" -> EndAttempt(TRUE, "complete")
            [] outcome = "empty" -> EndAttempt(FALSE, "none")
            [] outcome = "fatal" -> EndAttempt(FALSE, dicom_files[cases[idx]])
            [] outcome = "retry" ->
                 IF tries + 1 < wget_tries
                 THEN UNCHANGED <<dicom_files, successful_downloads, calls,
                                  dl_pc>>
                 ELSE EndAttempt(FALSE, dicom_files[cases[idx]])
    /\ UNCHANGED <<downloader, cases, idx, already_existing>>
    /\ UNCHANGED earlier_runs
    /\ UNCHANGED <<samplerVars, plotVars>>

\* subprocess.TimeoutExpired: the wget process is killed after 300 s, with
\* nothing or a part of the file written
WgetTimeout ==
    /\ dl_pc = "attempt"
    /\ downloader = "wget"
    /\ \E file \in {"none", "partial"} : EndAttempt(FALSE, file)
    /\ UNCHANGED <<downloader, cases, idx, tries, already_existing>>
    /\ UNCHANGED earlier_runs
    /\ UNCHANGED <<samplerVars, plotVars>>

\* download_dicom_file of the requests script: one requests.get; a request
\* error leaves the file as it was, an error while the body is written
\* leaves a part of it
RequestsGet ==
    /\ dl_pc = "attempt"
    /\ downloader = "requests"
    /\ tries' = 1
    /\ \E outcome \in {"ok", "request_error", "broken"} :
          CASE outcome = "ok" -> EndAttempt(TRUE, "complete")
            [] outcome = "request_error" ->
                 EndAttempt(FALSE, dicom_files[cases[idx]])
            [] outcome = "broken" -> EndAttempt(FALSE, "partial")
    /\ UNCHANGED <<downloader, cases, idx, already_existing>>
    /\ UNCHANGED earlier_runs
    /\ UNCHANGED <<samplerVars, plotVars>>

\* time.sleep(...) and the step to the next row
SleepBetween ==
    /\ dl_pc = "sleep"
    /\ calls' = Append(calls, Slept(Delay))
    /\ idx' = NextIndex(idx, calls[Len(calls)].n = 1)
    /\ dl_pc' = "loop"
    /\ UNCHANGED <<downloader, cases, tries, dicom_files,
                   successful_downloads, already_existing>>
    /\ UNCHANGED earlier_runs
    /\ UNCHANGED <<samplerVars, plotVars>>

\* the summary printed after the loop
DownloadSummary ==
    /\ dl_pc = "summary"
    /\ calls' = Append(calls, Summary(Len(cases) - successful_downloads
                                        - already_existing))
    /\ dl_pc' = "returned"
    /\ UNCHANGED <<downloader, cases, idx, tries, dicom_files,
                   successful_downloads, already_existing>>
    /\ UNCHANGED earlier_runs
    /\ UNCHANGED <<samplerVars, plotVars>>

NextDownload ==
    \/ BeginIteration
    \/ WgetTry
    \/ WgetTimeout
    \/ RequestsGet
    \/ SleepBetween
    \/ DownloadSummary

SpecDownload == InitDownload /\ [][NextDownload]_vars

\* runs of the download script over one output directory
MaxDownloadRuns == 2

\* the counters a run ends with
Counters ==
    [successful_downloads |-> successful_downloads,
     already_existing |-> already_existing,
     failed |-> Len(cases) - successful_downloads - already_existing]

\* The wget script is started again over the same master sheet and the
\* same output directory.
RerunDownload ==
    /\ dl_pc = "returned"
    /\ downloader = "wget"
    /\ Len(earlier_runs) + 1 < MaxDownloadRuns
    /\ earlier_runs' = Append(earlier_runs, Counters)
    /\ idx' = 1
    /\ dl_pc' = "loop"
    /\ tries' = 0
    /\ successful_downloads' = 0
    /\ already_existing' = 0
    /\ calls' = <<>>
    /\ UNCHANGED <<downloader, cases, dicom_files>>
    /\ UNCHANGED <<samplerVars, plotVars>>

InitDownloadWget == InitDownload /\ downloader = "wget"

NextDownloadWget ==
    \/ BeginIteration
    \/ WgetTry
    \/ WgetTimeout
    \/ SleepBetween
    \/ DownloadSummary
    \/ RerunDownload

SpecDownloadRerun == InitDownloadWget /\ [][NextDownloadWget]_vars

----------------------------------------------------------------------------
(* The optional per-case data of the visualization scripts:                *)
(* get_audio_info of visualize_egd_cxr_with_real_image.py and              *)
(* load_anatomical_masks of create_egd_cxr_plots.py                        *)

\* regions = ['aortic_knob', 'left_lung', 'right_lung', 'mediastanum']
regions == <<"aortic_knob", "left_lung", "right_lung", "mediastanum">>

\* A file of the auxiliary directory is missing, there but not readable
\* (json.load / Image.open raises), or good.
FileStates == {"missing", "unreadable", "ok"}

\* The auxiliary directories tried: none, or one with a transcript and the
\* four mask images in any state.
AuxDirs ==
    {[exists |-> FALSE, transcript |-> "missing",
      masks |-> [r \in Range(regions) |-> "missing"]]}
    \cup [exists : {TRUE}, transcript : FileStates,
          masks : [Range(regions) -> FileStates]]

\* the lines the two functions and main() print
Line(kind, what) == [kind |-> kind, what |-> what]

InitPlots ==
    /\ SamplerIdle
    /\ DownloadIdle
    /\ aux \in AuxDirs
    /\ PIL_AVAILABLE \in BOOLEAN
    /\ plot_pc \in {"get_audio_info", "load_anatomical_masks"}
    /\ region_i = 1
    /\ audio_info = None
    /\ anatomical_masks = {}
    /\ printed = <<>>
    /\ plot_error = ""
    /\ plot_in = NoPlotInputs
    /\ saved = <<>>
    /\ plot_exit = None

\* what reading a file that is not readable raises: json.load on the
\* transcript, Image.open on a mask image
ReadError(what) ==
    IF what = "transcript" THEN "JSONDecodeError" ELSE "UnidentifiedImageError"

\* whether the except clause around the read catches the exception: the
\* bare `except:` of get_audio_info and the `except Exception` of
\* load_anatomical_masks both catch every error of a read
CatchesNothing(clause, e) == FALSE
Catches(clause, e) ==
    \/ clause = "bare"
    \/ clause = "Exception" /\ e \in {"JSONDecodeError",
                                       "UnidentifiedImageError", "OSError"}

\* an exception that leaves the function reaches the except of main()
RaiseToMain(e) ==
    /\ plot_error' = e
    /\ plot_pc' = "failed"

\* get_audio_info: None unless the directory and the transcript exist and
\* the transcript is read; nothing is printed
GetAudioInfo ==
    /\ plot_pc = "get_audio_info"
    /\ IF aux.exists /\ aux.transcript = "unreadable"
          /\ ~Catches("bare", ReadError("transcript"))
       THEN /\ RaiseToMain(ReadError("transcript"))
            /\ UNCHANGED audio_info
       ELSE /\ audio_info' = IF aux.exists /\ aux.transcript = "ok"
                             THEN Some("transcript_data")
                             ELSE None
            /\ plot_pc' = "audio_summary"
            /\ UNCHANGED plot_error
    /\ UNCHANGED <<aux, PIL_AVAILABLE, region_i, anatomical_masks, printed>>
    /\ UNCHANGED <<plot_in, saved, plot_exit>>
    /\ UNCHANGED <<samplerVars, downloadVars>>

\* load_anatomical_masks: the test before the loop and one iteration of the
\* region loop.  A mask that is there and cannot be loaded is reported and
\* left out; a mask that is not there is left out.
LoadAnatomicalMasks ==
    /\ plot_pc = "load_anatomical_masks"
    /\ IF ~(aux.exists /\ PIL_AVAILABLE) \/ region_i > Len(regions)
       THEN /\ plot_pc' = "masks_summary"
            /\ UNCHANGED <<region_i, anatomical_masks, printed, plot_error>>
       ELSE LET region == regions[region_i]
                state == aux.masks[region]
            IN  IF state = "unreadable"
                   /\ ~Catches("Exception", ReadError("mask"))
                THEN /\ RaiseToMain(ReadError("mask"))
                     /\ UNCHANGED <<region_i, anatomical_masks, printed>>
                ELSE /\ region_i' = region_i + 1
                     /\ UNCHANGED <<plot_pc, plot_error>>
                     /\ IF state = "missing"
                        THEN UNCHANGED <<anatomical_masks, printed>>
                        ELSE IF state = "ok"
                        THEN /\ anatomical_masks' =
                                    anatomical_masks \cup {region}
                             /\ printed' = Append(printed,
                                                  Line("loaded", region))
                        ELSE /\ printed' = Append(printed,
                                                  Line("warning", region))
                             /\ UNCHANGED anatomical_masks
    /\ UNCHANGED <<aux, PIL_AVAILABLE, audio_info>>
    /\ UNCHANGED <<plot_in, saved, plot_exit>>
    /\ UNCHANGED <<samplerVars, downloadVars>>

\* main() goes on: it prints the data summary ("Audio available: Yes/No",
\* "Anatomical masks: n") and goes to the drawing
PrintDataSummary ==
    /\ plot_pc \in {"audio_summary", "masks_summary"}
    /\ printed' =
          Append(printed,
                 IF plot_pc = "audio_summary"
                 THEN Line("summary", IF audio_info # None THEN 1 ELSE 0)
                 ELSE Line("summary", Cardinality(anatomical_masks)))
    /\ plot_pc' = "draw"
    /\ UNCHANGED <<aux, PIL_AVAILABLE, region_i, audio_info,
                   anatomical_masks, plot_error>>
    /\ UNCHANGED <<plot_in, saved, plot_exit>>
    /\ UNCHANGED <<samplerVars, downloadVars>>

NextPlots ==
    \/ GetAudioInfo
    \/ LoadAnatomicalMasks
    \/ PrintDataSummary

SpecPlots == InitPlots /\ [][NextPlots]_vars

----------------------------------------------------------------------------
(* main() of create_egd_cxr_plots.py, from its first statement to the end  *)
(* of the process                                                          *)

\* the four plot functions main() calls, in order
plots ==
    <<"plot_1_anatomical_regions", "plot_2_bounding_boxes",
      "plot_3_fixation_analysis", "plot_4_comprehensive_info">>

\* the tables load_data reads, in order
plot_tables == <<"master_sheet", "bounding_boxes", "fixations">>

\* What main() finds: the plots directory can be created or not, the three
\* tables are there or not (the master sheet may have no row), pydicom is
\* installed or not, the DICOM file of the case is in some state, and the
\* disk has room for `room` plots.
RegularPlotInputs ==
    [plots_dir |-> "ok", master_sheet |-> "ok", bounding_boxes |-> "ok",
     fixations |-> "ok", DICOM_AVAILABLE |-> TRUE, dicom |-> "ok",
     room |-> Len(plots)]

\* the regular inputs and every deviation from them in one place
PlotInputs ==
    {RegularPlotInputs}
    \cup {[RegularPlotInputs EXCEPT !.plots_dir = "denied"]}
    \cup {[RegularPlotInputs EXCEPT !.master_sheet = s] : s \in {"missing", "empty"}}
    \cup {[RegularPlotInputs EXCEPT !.bounding_boxes = "missing"]}
    \cup {[RegularPlotInputs EXCEPT !.fixations = "missing"]}
    \cup {[RegularPlotInputs EXCEPT !.DICOM_AVAILABLE = FALSE]}
    \cup {[RegularPlotInputs EXCEPT !.dicom = s] : s \in {"missing", "unreadable"}}
    \cup {[RegularPlotInputs EXCEPT !.room = n] : n \in 0..(Len(plots) - 1)}

InitPlotsMain ==
    /\ SamplerIdle
    /\ DownloadIdle
    /\ aux \in AuxDirs
    /\ PIL_AVAILABLE \in BOOLEAN
    /\ plot_in \in PlotInputs
    /\ plot_pc = "main"
    /\ region_i = 1
    /\ audio_info = None
    /\ anatomical_masks = {}
    /\ printed = <<>>
    /\ plot_error = ""
    /\ saved = <<>>
    /\ plot_exit = None

\* the tables load_data has read and reported before the first missing one
RECURSIVE LoadedTables(_)
LoadedTables(k) ==
    IF k > Len(plot_tables) \/ plot_in[plot_tables[k]] = "missing" THEN <<>>
    ELSE <<Line("loaded", plot_tables[k])>> \o LoadedTables(k + 1)

\* os.makedirs(BASE_PLOTS_DIR) and load_data(): pd.read_csv raises
\* FileNotFoundError for a table that is not there
PlotsLoadData ==
    /\ plot_pc = "main"
    /\ IF plot_in.plots_dir = "denied"
       THEN /\ RaiseToMain("PermissionError")
            /\ UNCHANGED printed
       ELSE /\ printed' = printed \o LoadedTables(1)
            /\ IF Len(LoadedTables(1)) < Len(plot_tables)
               THEN RaiseToMain("FileNotFoundError")
               ELSE /\ plot_pc' = "select_case"
                    /\ UNCHANGED plot_error
    /\ UNCHANGED <<aux, PIL_AVAILABLE, region_i, audio_info, anatomical_masks,
                   plot_in, saved, plot_exit>>
    /\ UNCHANGED <<samplerVars, downloadVars>>

\* case = master_sheet.iloc[0] raises IndexError on a table without rows;
\* then create_case_directory
PlotsSelectCase ==
    /\ plot_pc = "select_case"
    /\ IF plot_in.master_sheet = "empty"
       THEN /\ RaiseToMain("IndexError")
            /\ UNCHANGED printed
       ELSE /\ printed' = Append(printed, Line("created", "case_dir"))
            /\ plot_pc' = "load_anatomical_masks"
            /\ UNCHANGED plot_error
    /\ UNCHANGED <<aux, PIL_AVAILABLE, region_i, audio_info, anatomical_masks,
                   plot_in, saved, plot_exit>>
    /\ UNCHANGED <<samplerVars, downloadVars>>

\* load_dicom_image catches what dcmread raises and returns (None, None);
\* main() reports the image or its absence
PlotsLoadDicom ==
    /\ plot_pc = "draw"
    /\ printed' =
          IF plot_in.DICOM_AVAILABLE /\ plot_in.dicom = "ok"
          THEN printed \o <<Line("loaded", "dicom"), Line("dicom", "loaded")>>
          ELSE IF plot_in.DICOM_AVAILABLE /\ plot_in.dicom = "unreadable"
          THEN printed \o <<Line("error", "dicom"), Line("dicom", "not found")>>
          ELSE Append(printed, Line("dicom", "not found"))
    /\ plot_pc' = "plots"
    /\ UNCHANGED <<aux, PIL_AVAILABLE, region_i, audio_info, anatomical_masks,
                   plot_error, plot_in, saved, plot_exit>>
    /\ UNCHANGED <<samplerVars, downloadVars>>

\* one of the four plot functions: plt.savefig raises OSError when the
\* file cannot be written; after the fourth main() reports completion
PlotsCreatePlot ==
    /\ plot_pc = "plots"
    /\ LET k == Len(saved) + 1
       IN  IF k > plot_in.room
           THEN /\ RaiseToMain("OSError")
                /\ UNCHANGED <<saved, printed>>
           ELSE /\ saved' = Append(saved, plots[k])
                /\ printed' =
                      IF k = Len(plots)
                      THEN printed \o <<Line("saved", plots[k]),
                                        Line("completed", "")>>
                      ELSE Append(printed, Line("saved", plots[k]))
                /\ plot_pc' = IF k = Len(plots) THEN "completed" ELSE plot_pc
                /\ UNCHANGED plot_error
    /\ UNCHANGED <<aux, PIL_AVAILABLE, region_i, audio_info, anatomical_masks,
                   plot_in, plot_exit>>
    /\ UNCHANGED <<samplerVars, downloadVars>>

\* except Exception as e: print(f"Error: {e}"); traceback.print_exc()
PlotsExcept ==
    /\ plot_pc = "failed"
    /\ printed' = printed \o <<Line("Error", plot_error),
                               Line("traceback", plot_error)>>
    /\ plot_pc' = "returned"
    /\ UNCHANGED <<aux, PIL_AVAILABLE, region_i, audio_info, anatomical_masks,
                   plot_error, plot_in, saved, plot_exit>>
    /\ UNCHANGED <<samplerVars, downloadVars>>

\* main() returns None after the try statement, whether the body completed
\* or the except clause ran, and the module calls it as a bare `main()`:
\* the interpreter ends with status 0
PlotsExitStatus(ended) == 0

\* the end of the process
PlotsExit ==
    /\ plot_pc \in {"completed", "returned"}
    /\ plot_exit' = Some(PlotsExitStatus(plot_pc))
    /\ plot_pc' = "exit"
    /\ UNCHANGED <<aux, PIL_AVAILABLE, region_i, audio_info, anatomical_masks,
                   printed, plot_error, plot_in, saved>>
    /\ UNCHANGED <<samplerVars, downloadVars>>

NextPlotsMain ==
    \/ PlotsLoadData
    \/ PlotsSelectCase
    \/ LoadAnatomicalMasks
    \/ PrintDataSummary
    \/ PlotsLoadDicom
    \/ PlotsCreatePlot
    \/ PlotsExcept
    \/ PlotsExit

SpecPlotsMain == InitPlotsMain /\ [][NextPlotsMain]_vars

----------------------------------------------------------------------------
(* Properties *)

\* the sampler has returned sample_df and the run has not ended
AfterSampler ==
    pc \in {"save_master", "copy_audio_transcripts", "sample_gaze_data",
            "sample_bounding_boxes", "create_metadata", "create_report",
            "done"}

UniqueIds(frame) == Cardinality(IdSet(frame)) = Len(frame)

LogHas(msg) == \E k \in DOMAIN log : log[k].msg = msg

\* C1: create_diverse_sample is deterministic: a second invocation on the
\* same case index and the same dataset returns the same set of case
\* identifiers as the first one.
C1_Deterministic ==
    (script = "enhanced" /\ run >= 2 /\ AfterSampler)
        => /\ first_sample # None
           /\ IdSet(first_sample[1]) = IdSet(sample_df)

\* a second run has returned a sample that is a proper, non-empty part of
\* the complete cases: the seeded draws chose among candidates
C1_Witness ==
    /\ script = "enhanced" /\ run = 2 /\ pc = "save_master"
    /\ Len(sample_df) >= 2
    /\ Len(sample_df) < Len(df_complete)

\* C2: with unique dicom_ids in the index, the table create_diverse_sample
\* returns has at most n_samples rows and no dicom_id twice.
C2_AtMostNNoDuplicates ==
    (script = "enhanced" /\ AfterSampler /\ UniqueIds(df))
        => /\ Len(sample_df) <= n_samples
           /\ UniqueIds(sample_df)

\* a sample cut down to n_samples that holds a case positive for two
\* primary conditions (a candidate of two draws)
C2_Witness ==
    /\ script = "enhanced" /\ pc = "save_master" /\ UniqueIds(df)
    /\ SumLen(samples) > n_samples
    /\ Len(sample_df) = n_samples
    /\ \E k \in DOMAIN sample_df : {"CHF", "pneumonia"} \subseteq sample_df[k].flags

\* C3: create_diverse_sample returns exactly min(N, available) rows,
\* available being the number of cases that passed the validation.
C3_ExactlyMinNAvailable ==
    (script = "enhanced" /\ AfterSampler)
        => Len(sample_df) = Min(n_samples, Len(complete_studies))

\* the fill topped the selection up to N while complete cases were left over
C3_Witness ==
    /\ script = "enhanced" /\ pc = "save_master"
    /\ LogHas("Added diverse random")
    /\ Len(complete_studies) > n_samples
    /\ Len(sample_df) = n_samples

\* C4: every case of the returned sample is in the list
\* validate_data_completeness returned.
C4_SampleWithinComplete ==
    (script = "enhanced" /\ AfterSampler)
        => IdSet(sample_df) \subseteq Range(complete_studies)

\* the fill drew from a pool while the index held a case that is not complete
C4_Witness ==
    /\ script = "enhanced" /\ pc = "save_master"
    /\ LogHas("Added diverse random")
    /\ Len(complete_studies) < Len(df)
    /\ Len(sample_df) < n_samples

\* the three pieces of data of a case, looked up in the whole dataset
HasAudioEntry(id) == id \in raw.audio
HasRows(file, id) == file.exists /\ file.readable /\ HasId(file.rows, id)

\* C5: validate_data_completeness lists a case only if it has an audio
\* entry, a fixation row and a gaze row, and never raises: the call goes on
\* to the sampling whatever is missing.
C5_CompleteOnlyIfAllThree ==
    [][pc = "validate_data_completeness"
         => /\ pc' = "primary"
            /\ error' = ""
            /\ \A id \in Range(complete_studies') :
                  /\ id \in IdSet(df)
                  /\ HasAudioEntry(id)
                  /\ HasRows(raw.fixations, id)
                  /\ HasRows(raw.gaze, id)]_vars

\* validation has left out a case that has no audio entry and kept others
C5_Witness ==
    /\ script = "enhanced" /\ pc = "primary" /\ i = 1 /\ samples = <<>>
    /\ Len(complete_studies) > 0
    /\ \E id \in IdSet(df) : ~HasAudioEntry(id) /\ id \notin Range(complete_studies)

\* the source rows of a table, each as <<case, source row number>>
RowSet(t) == UNION {{<<t[k].id, r>> : r \in t[k].from..t[k].to} : k \in DOMAIN t}

\* the rows of an output file (none when the file was not written)
OutRows(file) == IF file.exists THEN file.rows ELSE <<>>

\* `output` holds rows of the cases `ids` only, and every row of `source`
\* that is of a case of `ids` exactly once
ExactExtraction(source, output, ids) ==
    /\ \A k \in DOMAIN output : output[k].id \in ids
    /\ RowSet(output) = RowSet(RowsOf(source, ids))
    /\ RowCount(output) = Cardinality(RowSet(output))
    /\ RowCount(output) = RowCount(RowsOf(source, ids))

\* C6: for the gaze, fixation and bounding-box tables and the selected set
\* S, the extracted output holds rows of S only and every source row of S
\* exactly once.  Stated for a run whose sample was saved and that has
\* ended, over every table of the dataset that exists and can be read.
C6_ExtractionExact ==
    (/\ pc = "exit"
     /\ out.master_sheet_sample.exists
     /\ \A f \in {"gaze", "fixations", "bbox"} :
            raw[f].exists => raw[f].readable)
        => /\ raw.gaze.exists =>
                ExactExtraction(raw.gaze.rows, OutRows(out.eye_gaze_sample),
                                IdSet(sample_df))
           /\ raw.fixations.exists =>
                ExactExtraction(raw.fixations.rows,
                                OutRows(out.fixations_sample), IdSet(sample_df))
           /\ raw.bbox.exists =>
                ExactExtraction(raw.bbox.rows,
                                OutRows(out.bounding_boxes_sample),
                                IdSet(sample_df))

\* C6, for the calls that return: after sample_gaze_data and
\* sample_bounding_boxes have returned, the outputs are exact, and the
\* enhanced script returns the row counts.
C6_ExactWhenReturned ==
    /\ pc \in {"sample_bounding_boxes", "create_metadata", "create_report",
               "done"}
          => /\ raw.gaze.exists =>
                  ExactExtraction(raw.gaze.rows, OutRows(out.eye_gaze_sample),
                                  IdSet(sample_df))
             /\ raw.fixations.exists =>
                  ExactExtraction(raw.fixations.rows,
                                  OutRows(out.fixations_sample),
                                  IdSet(sample_df))
             /\ script = "enhanced" =>
                  /\ ret.gaze_records =
                        Some(RowCount(RowsOf(raw.gaze.rows, IdSet(sample_df))))
                  /\ ret.fixation_records =
                        Some(RowCount(RowsOf(raw.fixations.rows,
                                             IdSet(sample_df))))
    /\ pc \in {"create_metadata", "create_report", "done"}
          => /\ raw.bbox.exists =>
                  ExactExtraction(raw.bbox.rows,
                                  OutRows(out.bounding_boxes_sample),
                                  IdSet(sample_df))
             /\ script = "enhanced" =>
                  ret.bbox_records =
                      Some(RowCount(RowsOf(raw.bbox.rows, IdSet(sample_df))))

\* a selected case has a run of rows that lies across a chunk boundary and
\* the extraction has returned
C6_WitnessReturned ==
    /\ pc = "sample_bounding_boxes"
    /\ \E k \in DOMAIN raw.gaze.rows :
          /\ raw.gaze.rows[k].id \in IdSet(sample_df)
          /\ raw.gaze.rows[k].from <= chunk_size
          /\ raw.gaze.rows[k].to > chunk_size

\* the number of rows of a frame that are positive for a condition
CountPositive(frame, c) ==
    Cardinality({k \in DOMAIN frame : c \in frame[k].flags})

\* The premise of C7 for the primary condition A: at least the quota of
\* complete cases are positive for A, none of them is positive for another
\* condition, and they are more than the quota.
QuotaPremise(A) ==
    /\ CountPositive(df_complete, A) >= primary_samples_per_condition
    /\ \A k \in DOMAIN df_complete :
          A \in df_complete[k].flags => df_complete[k].flags = {A}
    /\ CountPositive(df_complete, A) > primary_samples_per_condition

\* C7 as claimed: under the premise the returned sample holds exactly
\* primary_samples_per_condition cases positive for A.
C7_ExactlyQuotaInSample ==
    \A A \in Range(primary_conditions) :
        (script = "enhanced" /\ AfterSampler /\ QuotaPremise(A))
            => CountPositive(sample_df, A) = primary_samples_per_condition

\* C7 as amended: under the premise the selection of steps 1 to 3 holds
\* exactly the quota of cases positive for A; the returned sample holds at
\* least the quota when it was not cut down to N, and at most the quota
\* when the fill drew nothing.
C7_QuotaInSelection ==
    \A A \in Range(primary_conditions) :
        (script = "enhanced" /\ QuotaPremise(A))
            => /\ pc \in {"complex", "secondary", "fill"} =>
                    CountPositive(Concat(samples), A)
                        = primary_samples_per_condition
               /\ (AfterSampler /\ SumLen(samples) <= n_samples) =>
                    CountPositive(sample_df, A)
                        >= primary_samples_per_condition
               /\ (AfterSampler /\ ~LogHas("Added diverse random")) =>
                    CountPositive(sample_df, A)
                        <= primary_samples_per_condition

\* the premise holds for Normal and the fill has added Normal cases beyond
\* the quota
C7_Witness ==
    /\ script = "enhanced" /\ pc = "save_master"
    /\ QuotaPremise("Normal")
    /\ LogHas("Added diverse random")
    /\ CountPositive(sample_df, "Normal") > primary_samples_per_condition

\* The scenario of C8: three complete cases, one Normal only, one CHF only,
\* one CHF and pneumonia, and a target of 3.
ComplexScenario ==
    /\ script = "enhanced"
    /\ n_samples = 3
    /\ Len(df) = 3
    /\ Len(df_complete) = 3
    /\ {df_complete[k].flags : k \in DOMAIN df_complete}
          = {{"Normal"}, {"CHF"}, {"CHF", "pneumonia"}}

HasComplexCase(frame) ==
    \E k \in DOMAIN frame : frame[k].flags = {"CHF", "pneumonia"}

\* C8 as claimed: in the scenario the sample includes the complex case and
\* the complex draw of step 2 is the step that contributes it.
C8_ComplexByStepTwo ==
    (ComplexScenario /\ AfterSampler)
        => /\ HasComplexCase(sample_df)
           /\ LogHas("Sampled complex")

\* C8 as amended: in the scenario the sample includes the complex case; it
\* is drawn in step 1 by the CHF draw, which takes both CHF cases, and
\* neither the pneumonia draw nor step 2 draws anything.
C8_ComplexByStepOne ==
    (ComplexScenario /\ AfterSampler)
        => /\ HasComplexCase(sample_df)
           /\ ~LogHas("Sampled complex")
           /\ ~\E k \in DOMAIN log : log[k].msg = "Sampled" /\ log[k].arg = "pneumonia"
           /\ \E k \in DOMAIN samples :
                 /\ HasComplexCase(samples[k])
                 /\ \A j \in DOMAIN samples[k] : "CHF" \in samples[k][j].flags
           /\ \E k \in DOMAIN log : log[k].msg = "Sampled" /\ log[k].arg = "CHF"
                                    /\ log[k].n = 2

C8_Witness ==
    ComplexScenario /\ pc = "save_master" /\ HasComplexCase(sample_df)

\* the rows of the sample whose source directory exists / is missing
WithSourceDir(frame) ==
    {k \in DOMAIN frame : frame[k].dicom_id \in raw.audio}
WithoutSourceDir(frame) ==
    {k \in DOMAIN frame : frame[k].dicom_id \notin raw.audio}

\* C9: when the bounding-box table has no row of a selected case,
\* sample_bounding_boxes of the enhanced script writes an empty table and
\* returns 0, and the run goes on to the metadata.
C9_EmptyBoundingBoxes ==
    [][(/\ pc = "sample_bounding_boxes"
        /\ script = "enhanced"
        /\ raw.bbox.exists
        /\ RowsOf(raw.bbox.rows, IdSet(sample_df)) = <<>>)
         => /\ pc' = "create_metadata"
            /\ error' = ""
            /\ out'.bounding_boxes_sample = FileWith(<<>>)
            /\ ret'.bbox_records = Some(0)]_vars

\* a non-empty sample, a bounding-box table that has rows but none of a
\* selected case, and the extraction has returned
C9_Witness ==
    /\ script = "enhanced" /\ pc = "create_metadata"
    /\ Len(sample_df) > 0
    /\ raw.bbox.exists /\ Len(raw.bbox.rows) > 0
    /\ RowsOf(raw.bbox.rows, IdSet(sample_df)) = <<>>
    /\ out.bounding_boxes_sample = FileWith(<<>>)

\* C10 as claimed: copy_audio_transcripts skips a case whose source
\* directory is missing, the run goes on with the sample unchanged, and the
\* method returns the number of sampled cases whose source directory exists.
C10_ReturnsCopiedCount ==
    pc = "sample_gaze_data"
        => /\ error = ""
           /\ out.master_sheet_sample.rows = sample_df
           /\ ret.audio_count = Some(Cardinality(WithSourceDir(sample_df)))

\* C10 as amended: a case whose source directory is missing is logged with
\* a warning and skipped, the others are copied, the run goes on with the
\* sample unchanged, and the number of sampled cases whose source directory
\* exists is logged; the enhanced script returns it, the basic script
\* returns nothing.
C10_SkipsMissingDirectory ==
    [][pc = "copy_audio_transcripts"
         => /\ pc' = "sample_gaze_data"
            /\ error' = ""
            /\ sample_df' = sample_df
            /\ out'.master_sheet_sample.rows = sample_df
            /\ out'.audio = out.audio
                  \cup {sample_df[k].dicom_id : k \in WithSourceDir(sample_df)}
            /\ \A k \in WithoutSourceDir(sample_df) :
                  \E j \in DOMAIN log' :
                     /\ j > Len(log)
                     /\ log'[j].level = "warning"
                     /\ log'[j].arg = sample_df[k].dicom_id
            /\ log'[Len(log')] =
                  Info("Copied audio transcript directories", "",
                       Cardinality(WithSourceDir(sample_df)))
            /\ ret'.audio_count =
                  IF script = "enhanced"
                  THEN Some(Cardinality(WithSourceDir(sample_df)))
                  ELSE None]_vars

\* a sample with a case whose source directory is missing and a case whose
\* directory was copied, after copy_audio_transcripts
C10_Witness ==
    /\ pc = "sample_gaze_data"
    /\ WithoutSourceDir(sample_df) # {}
    /\ WithSourceDir(sample_df) # {}
    /\ \E k \in DOMAIN log : log[k].level = "warning"

\* one of the three input files C11 calls required is missing
MissingRequired ==
    ~raw.master.exists \/ ~raw.fixations.exists \/ ~raw.bbox.exists

\* C11 as claimed: a run in which the case index, the fixation table or the
\* bounding-box table does not exist aborts with an error identifying the
\* missing file and does not complete successfully.
C11_MissingInputFatal ==
    (pc = "exit" /\ config = ConfigFile /\ MissingRequired)
        => /\ exit_code = Some(1)
           /\ error = "FileNotFoundError"

\* C11 as amended: only a missing case index is fatal (load_master_sheet
\* raises FileNotFoundError, the run method logs it, nothing is written and
\* main returns 1).  A missing fixation table is skipped by
\* sample_gaze_data without a message and a missing bounding-box table is
\* answered by sample_bounding_boxes with a warning and 0 records; neither
\* writes a file and the run goes on to the next step.
C11_OnlyCaseIndexFatal ==
    [][/\ (pc = "load_master_sheet" /\ ~raw.master.exists)
            => /\ pc' = "failed"
               /\ error' = "FileNotFoundError"
               /\ log' = Append(log, [level |-> "error", msg |-> "run",
                                      arg |-> "FileNotFoundError", n |-> 0])
               /\ out' = out
       /\ (pc = "failed" /\ error = "FileNotFoundError")
            => /\ pc' = "exit"
               /\ exit_code' = Some(1)
               /\ out' = out
       /\ (/\ pc = "sample_gaze_data"
           /\ ~raw.fixations.exists
           /\ raw.gaze.exists => raw.gaze.readable)
            => /\ pc' = "sample_bounding_boxes"
               /\ error' = ""
               /\ out'.fixations_sample = out.fixations_sample
               /\ \A k \in DOMAIN log' : log'[k].level # "warning"
                                          \/ k <= Len(log)
               /\ script = "enhanced" => ret'.fixation_records = Some(0)
       /\ (pc = "sample_bounding_boxes" /\ ~raw.bbox.exists)
            => /\ pc' = "create_metadata"
               /\ error' = ""
               /\ out' = out
               /\ log' = Append(log, Warning("Bounding boxes file not found", ""))
               /\ script = "enhanced" => ret'.bbox_records = Some(0)]_vars

\* a run over a dataset without bounding-box table has ended with status 0,
\* with a sample and a metadata document written
C11_Witness ==
    /\ pc = "exit"
    /\ ~raw.bbox.exists
    /\ exit_code = Some(0)
    /\ Len(sample_df) > 0
    /\ out.metadata # None
    /\ ~out.bounding_boxes_sample.exists
    /\ LogHas("Bounding boxes file not found")

\* the rows of the complete cases that are positive for c and that no
\* earlier draw selected
Unselected(c) ==
    {k \in DOMAIN df_complete :
        /\ c \in df_complete[k].flags
        /\ df_complete[k].dicom_id \notin used_ids}

\* the condition and the quota of the per-condition draw about to run
CurrentCondition ==
    IF pc = "primary" THEN primary_conditions[i] ELSE secondary_conditions[i]
CurrentQuota ==
    IF pc = "primary" THEN primary_samples_per_condition
    ELSE secondary_samples_per_condition

\* C12: create_diverse_sample never fails for lack of cases: no step of it
\* raises; a per-condition draw with fewer unselected positive cases than
\* its quota draws those there are; and when fewer than N cases are
\* complete the sample returned is all of them, fewer than N.
C12_NeverFailsForLack ==
    [][script = "enhanced" =>
        /\ pc \in {"validate_data_completeness", "primary", "complex",
                    "secondary", "fill", "combine"}
              => error' = "" /\ pc' # "failed"
        /\ pc \in {"primary", "secondary"}
              => Cardinality(used_ids') - Cardinality(used_ids)
                    = Min(CurrentQuota, Cardinality(Unselected(CurrentCondition)))
        /\ (pc = "combine" /\ Len(df_complete) < n_samples)
              => /\ Len(sample_df') < n_samples
                 /\ IdSet(sample_df') = IdSet(df_complete)]_vars

\* a draw found fewer cases than its quota, fewer than N cases are
\* complete, and the sampler has returned a non-empty sample
C12_Witness ==
    /\ script = "enhanced" /\ pc = "save_master"
    /\ \E k \in DOMAIN log :
          /\ log[k].msg = "Sampled"
          /\ log[k].arg = "Normal"
          /\ log[k].n < primary_samples_per_condition
    /\ Len(df_complete) < n_samples
    /\ Len(sample_df) > 0
    /\ Len(sample_df) = Len(df_complete)

\* the entry the except clause of run_enhanced_sampling / run_sampling logs
ErrorLogged(e) == [level |-> "error", msg |-> "run", arg |-> e, n |-> 0]

\* the entries of the output directory that have been written
WrittenEntries == {name \in DOMAIN out : out[name] # EmptyOutput[name]}

\* C13 as claimed: an exception raised at any step of the run, the
\* configuration load included, is logged by the run method, re-raised,
\* caught in main and makes the process exit with a non-zero status; the
\* files written before the failing step stay as they are.
C13_AnyExceptionLoggedByRun ==
    [][/\ pc' = "failed"
            => /\ error' # ""
               /\ log' = Append(log, ErrorLogged(error'))
               /\ \A name \in WrittenEntries : out'[name] = out[name]
       /\ pc = "failed"
            => /\ pc' = "exit"
               /\ exit_code' = Some(1)
               /\ out' = out]_vars

\* C13 as amended: an exception raised by a step inside the run method
\* (load, sample, extract, metadata, report) is logged by the run method
\* and re-raised; an exception raised while the configuration is loaded
\* comes from the constructor, outside the run method, so the run method
\* logs nothing.  Either way main catches it and the process exits with
\* status 1, and the files written before the failing step stay as they
\* are; there is no retry.
C13_ExceptionsEndRun ==
    [][/\ pc' = "failed"
            => /\ error' # ""
               /\ log' = IF pc = "construct" THEN log
                         ELSE Append(log, ErrorLogged(error'))
               /\ \A name \in WrittenEntries : out'[name] = out[name]
       /\ pc = "failed"
            => /\ pc' = "exit"
               /\ exit_code' = Some(1)
               /\ error' = error
               /\ out' = out
       /\ pc = "done" => exit_code' = Some(0)]_vars

\* a run of the basic script that wrote the sample and copied directories
\* has failed in the extraction and has ended with status 1
C13_Witness ==
    /\ script = "basic" /\ pc = "exit"
    /\ exit_code = Some(1)
    /\ error = "UnboundLocalError"
    /\ log[Len(log)] = ErrorLogged("UnboundLocalError")
    /\ out.master_sheet_sample.exists
    /\ out.audio # {}

\* the configuration names an output directory that is not the raw one
SeparatePaths ==
    (config # NoConfig /\ "path" \in DOMAIN config[1])
        => config[1].path.sampling_data # config[1].path.raw

\* C14: no step of a sampler run, successful or failed, changes the raw
\* dataset (case index, gaze, fixation and bounding-box tables, per-case
\* directories): every write goes to the output directory, the output
\* path being another directory than the raw path.
C14_SourceNotModified ==
    [][SeparatePaths
         => /\ raw' = raw
            /\ out' # out
                 => pc \in {"save_master", "copy_audio_transcripts",
                            "sample_gaze_data", "sample_bounding_boxes",
                            "create_metadata", "create_report"}]_vars

\* a run has ended with every output written: the sample, the copied
\* directories, the three extracted tables, the metadata and the report
C14_Witness ==
    /\ pc = "exit" /\ exit_code = Some(0)
    /\ out.master_sheet_sample.exists
    /\ out.audio # {}
    /\ out.eye_gaze_sample.exists
    /\ out.fixations_sample.exists
    /\ out.bounding_boxes_sample.exists
    /\ out.metadata # None
    /\ out.report # None

\* the case has rows in the table and all of them lie beyond the first
\* nrows rows
RowsOnlyBeyondPrefix(file, id) ==
    /\ HasRows(file, id)
    /\ \A k \in DOMAIN file.rows :
          file.rows[k].id = id => file.rows[k].from > nrows

\* a case with an auxiliary directory and rows in both tables, the rows in
\* at least one of the tables all beyond the scanned prefix
BeyondPrefix(id) ==
    /\ HasAudioEntry(id)
    /\ HasRows(raw.gaze, id)
    /\ HasRows(raw.fixations, id)
    /\ \/ RowsOnlyBeyondPrefix(raw.gaze, id)
       \/ RowsOnlyBeyondPrefix(raw.fixations, id)

\* C15: validate_data_completeness scans the first 1000 rows of the gaze
\* and of the fixation table only: a case that has everything, but whose
\* rows in one of the tables all lie beyond row 1000, is not reported
\* complete (and a case with a row among the first 1000 of both is).
C15_FalseNegativeBeyondPrefix ==
    [][(script = "enhanced" /\ pc = "validate_data_completeness")
         => \A id \in IdSet(df) :
               /\ BeyondPrefix(id) => id \notin Range(complete_studies')
               /\ (/\ HasAudioEntry(id)
                   /\ HasRows(raw.gaze, id) /\ HasRows(raw.fixations, id)
                   /\ ~BeyondPrefix(id))
                    => id \in Range(complete_studies')]_vars

\* validation has kept the case whose rows reach row 1000 and has left out
\* a case that has everything, with rows beyond row 1000 only
C15_Witness ==
    /\ script = "enhanced" /\ pc = "primary" /\ i = 1 /\ samples = <<>>
    /\ \E id \in IdSet(df) : BeyondPrefix(id) /\ id \notin Range(complete_studies)
    /\ \E id \in Range(complete_studies) :
          \E k \in DOMAIN raw.gaze.rows :
             /\ raw.gaze.rows[k].id = id
             /\ raw.gaze.rows[k].from = nrows

\* the rows of an output table are in the order of their source row numbers
SourceOrder(t) ==
    /\ \A k \in DOMAIN t : t[k].from <= t[k].to
    /\ \A j, k \in DOMAIN t : j < k => t[j].to < t[k].from

\* C16: the chunked extraction of sample_gaze_data keeps the source order:
\* any two rows of eye_gaze_sample.csv or of fixations_sample.csv are in
\* the order they have in the source table.
C16_SourceOrderPreserved ==
    /\ SourceOrder(OutRows(out.eye_gaze_sample))
    /\ SourceOrder(OutRows(out.fixations_sample))

\* the fixation output holds rows of two selected cases taken from two
\* chunks, one run of rows lying across the chunk boundary
C16_Witness ==
    /\ pc = "sample_bounding_boxes"
    /\ Len(sample_df) >= 2
    /\ LET t == OutRows(out.fixations_sample)
       IN  /\ \E k \in DOMAIN t : t[k].to = chunk_size
           /\ \E k \in DOMAIN t : t[k].from = chunk_size + 1
           /\ \E j, k \in DOMAIN t : t[j].id # t[k].id /\ t[j].to < chunk_size
                                      /\ t[k].to < chunk_size

\* C19: the metadata create_comprehensive_metadata produces is a projection
\* of the sample: study_details has one entry per sampled case, in sample
\* order; total_studies is the sample size; the count of every condition in
\* clinical_conditions is the number of study_details entries that list the
\* condition; and the report lists each sampled case exactly once.
C19_MetadataProjection ==
    /\ (script = "enhanced" /\ metadata # None)
          => LET doc == metadata[1]
             IN  /\ Len(doc.study_details) = Len(sample_df)
                 /\ \A k \in DOMAIN sample_df :
                       /\ doc.study_details[k].dicom_id = sample_df[k].dicom_id
                       /\ doc.study_details[k].conditions
                             = sample_df[k].flags \cap Range(all_conditions)
                       /\ doc.study_details[k].condition_count
                             = Cardinality(doc.study_details[k].conditions)
                 /\ doc.total_studies = Len(sample_df)
                 /\ doc.sampled_studies = Ids(sample_df)
                 /\ DOMAIN doc.clinical_conditions = Range(all_conditions)
                 /\ \A c \in Range(all_conditions) :
                       doc.clinical_conditions[c]
                          = Cardinality({k \in DOMAIN doc.study_details :
                                            c \in doc.study_details[k].conditions})
                 /\ out.metadata = metadata
    /\ (script = "enhanced" /\ pc \in {"done", "exit"} /\ error = "")
          => /\ out.report # None
             /\ out.report[1].studies = Ids(sample_df)
             /\ out.report[1].sample_size = Len(sample_df)
             /\ UniqueIds(df) => UniqueIds(sample_df)

\* the report is written for a sample that is a proper part of the index
\* and holds a case with two conditions and a case with none
C19_Witness ==
    /\ script = "enhanced" /\ pc = "done"
    /\ Len(sample_df) < Len(df)
    /\ \E k \in DOMAIN sample_df : Cardinality(sample_df[k].flags) = 2
    /\ \E k \in DOMAIN sample_df : sample_df[k].flags = {}
    /\ \E c \in Range(all_conditions) : metadata[1].clinical_conditions[c] >= 2

\* C20: a per-condition draw of create_diverse_sample (quota 8 in step 1,
\* quota 3 in step 3) adds at most its quota of cases, each of them
\* positive for the condition and selected by no earlier draw; when every
\* positive case of the condition is already selected it adds nothing.
C20_DrawWithinQuota ==
    [][(script = "enhanced" /\ pc \in {"primary", "secondary"})
         => LET added == used_ids' \ used_ids
            IN  /\ used_ids \subseteq used_ids'
                /\ Cardinality(added) <= CurrentQuota
                /\ \A id \in added :
                      \E k \in DOMAIN df_complete :
                         /\ df_complete[k].dicom_id = id
                         /\ CurrentCondition \in df_complete[k].flags
                /\ IF added = {} THEN samples' = samples
                   ELSE /\ Len(samples') = Len(samples) + 1
                        /\ SubSeq(samples', 1, Len(samples)) = samples
                        /\ IdSet(samples'[Len(samples')]) = added
                        /\ Len(samples'[Len(samples')]) = Cardinality(added)
                /\ Unselected(CurrentCondition) = {} => added = {}
                /\ Unselected(CurrentCondition) # {} => added # {}]_vars

\* step 3 is over: the consolidation draw took its quota of 3, the
\* pleural-effusion draw the one case left, and the pneumonia draw of step 1
\* added nothing because the CHF draw had taken its only positive case
C20_Witness ==
    /\ script = "enhanced" /\ pc = "fill"
    /\ \E k \in DOMAIN log :
          /\ log[k].msg = "Sampled" /\ log[k].arg = "consolidation"
          /\ log[k].n = secondary_samples_per_condition
    /\ \E k \in DOMAIN log :
          /\ log[k].msg = "Sampled"
          /\ log[k].arg = "pleural_effusion_or_thickening"
          /\ log[k].n = 1
    /\ CountPositive(df_complete, "pneumonia") > 0
    /\ ~\E k \in DOMAIN log :
           log[k].msg = "Sampled" /\ log[k].arg = "pneumonia"

\* the attempts (calls of the download function) made for a file
Attempts(dicom_id) ==
    {k \in DOMAIN calls :
        calls[k].kind = "start" /\ calls[k].dicom_id = dicom_id}

\* C17: in the download loops the downloads are sequential, with a fixed
\* delay and bounded attempts: an attempt starts only after the attempt
\* before it has returned and the fixed sleep (2 s for wget, 1 s for
\* requests) has been made; each file is attempted at most once in a run,
\* wget making at most 3 tries; and a file that failed is not attempted
\* again by the loop.
C17_SequentialBoundedDownloads ==
    /\ tries <= TriesLimit
    /\ (dl_pc = "attempt") <=>
          (calls # <<>> /\ calls[Len(calls)].kind = "start")
    /\ \A k \in DOMAIN calls :
          /\ calls[k].kind = "start"
                => /\ calls[k].n = IF downloader = "wget" THEN 3 ELSE 1
                   /\ calls[k].timeout = IF downloader = "wget" THEN 60
                                         ELSE 30
                   /\ k > 1 => /\ k > 2
                               /\ calls[k - 1] = Slept(IF downloader = "wget"
                                                        THEN 2 ELSE 1)
                               /\ calls[k - 2].kind = "return"
                   /\ Attempts(calls[k].dicom_id) = {k}
          /\ calls[k].kind = "return"
                => /\ k > 1
                   /\ calls[k - 1].kind = "start"
                   /\ calls[k - 1].dicom_id = calls[k].dicom_id
          /\ calls[k].kind = "sleep"
                => k > 1 /\ calls[k - 1].kind = "return"
    /\ \A j, k \in DOMAIN calls :
          (j < k /\ calls[j].kind = "return" /\ calls[j].n = 0
                 /\ calls[k].kind = "start")
              => calls[k].dicom_id # calls[j].dicom_id

\* the wget loop has ended after skipping a file that was there, a download
\* that failed and a later download that succeeded
C17_Witness ==
    /\ downloader = "wget" /\ dl_pc = "returned"
    /\ already_existing >= 1
    /\ \E j, k \in DOMAIN calls :
          /\ j < k
          /\ calls[j].kind = "return" /\ calls[j].n = 0
          /\ calls[k].kind = "return" /\ calls[k].n = 1

\* a warning has been printed (about `what`)
Warned(what) == \E k \in DOMAIN printed : printed[k] = Line("warning", what)
AnyWarning == \E k \in DOMAIN printed : printed[k].kind = "warning"

\* the transcript / a mask image of the case cannot be had
NoTranscript == ~aux.exists \/ aux.transcript # "ok"
NoMask(region) == ~aux.exists \/ aux.masks[region] # "ok"

\* C18 as claimed: missing optional data is treated as absence with a
\* logged warning and processing continues: get_audio_info returns None
\* when the directory or the transcript is missing or unreadable,
\* load_anatomical_masks leaves out a region whose mask is missing or
\* unreadable, a warning is printed for what is absent, no error is raised.
C18_AbsenceWithWarning ==
    /\ plot_error = ""
    /\ (plot_pc = "audio_summary" /\ NoTranscript)
          => audio_info = None /\ AnyWarning
    /\ plot_pc = "masks_summary"
          => \A r \in Range(regions) :
                NoMask(r) => r \notin anatomical_masks /\ Warned(r)

\* C18 as amended: get_audio_info returns None when the directory or the
\* transcript is missing or unreadable, and prints nothing;
\* load_anatomical_masks leaves out a region whose mask is missing or
\* unreadable (every region when the directory is missing or PIL is not
\* installed) and prints a warning only for a mask image that is there and
\* cannot be loaded.  Neither raises, and main goes on to the drawing.
C18_AbsenceMostlySilent ==
    /\ plot_error = ""
    /\ plot_pc \in {"audio_summary", "masks_summary"} => ENABLED PrintDataSummary
    /\ plot_pc = "audio_summary"
          => /\ NoTranscript => audio_info = None
             /\ ~NoTranscript => audio_info = Some("transcript_data")
             /\ printed = <<>>
    /\ plot_pc = "masks_summary"
          => \A r \in Range(regions) :
                /\ NoMask(r) => r \notin anatomical_masks
                /\ r \in anatomical_masks
                      <=> (aux.exists /\ PIL_AVAILABLE /\ aux.masks[r] = "ok")
                /\ Warned(r)
                      <=> (aux.exists /\ PIL_AVAILABLE
                           /\ aux.masks[r] = "unreadable")

\* load_anatomical_masks has returned with a mask loaded, a mask missing
\* (left out silently) and a mask unreadable (left out with a warning)
C18_Witness ==
    /\ plot_pc = "masks_summary"
    /\ \E r \in Range(regions) : r \in anatomical_masks
    /\ \E r \in Range(regions) :
          aux.masks[r] = "missing" /\ r \notin anatomical_masks /\ ~Warned(r)
    /\ \E r \in Range(regions) :
          aux.masks[r] = "unreadable" /\ r \notin anatomical_masks /\ Warned(r)

----------------------------------------------------------------------------
(* Step 2 of create_diverse_sample *)

\* the frame a step appends to the list of draws, <<>> when it draws nothing
Drawn ==
    IF Len(samples') > Len(samples) THEN samples'[Len(samples')] ELSE <<>>

\* C21: step 2 of create_diverse_sample runs after all primary draws and
\* before any secondary draw (it is entered only from the last primary
\* iteration, with nothing but primary draws made, and leaves to the first
\* secondary iteration), and adds at most 8 cases, each unselected after
\* step 1 and with at least 2 positive flags over the primary and secondary
\* condition columns.
C21_ComplexStep ==
    [][/\ (pc' = "complex" /\ pc # "complex")
            => /\ pc = "primary" /\ i = Len(primary_conditions)
               /\ Len(samples') <= Len(primary_conditions)
               /\ ~\E k \in DOMAIN log' :
                      log'[k].msg = "Sampled"
                      /\ log'[k].arg \in Range(secondary_conditions)
       /\ pc = "complex"
            => /\ pc' = "secondary" /\ i' = 1
               /\ Len(Drawn) <= 8
               /\ samples' \in {samples, Append(samples, Drawn)}
               /\ \A k \in DOMAIN Drawn :
                     /\ Drawn[k].dicom_id \notin used_ids
                     /\ Drawn[k] \in Range(df_complete)
                     /\ Cardinality(Drawn[k].flags
                                    \cap (Range(primary_conditions)
                                          \cup Range(secondary_conditions)))
                           >= 2
               /\ used_ids' = used_ids \cup IdSet(Drawn)
      ]_vars

\* step 2 has drawn 8 complex cases out of more, after a primary draw
C21_Witness ==
    /\ pc = "secondary" /\ i = 1
    /\ Len(samples) >= 2
    /\ Len(samples[Len(samples)]) = complex_samples
    /\ log[Len(log)] = Info("Sampled complex", "", complex_samples)
    /\ Len(ComplexCases(df_complete, {})) > complex_samples

----------------------------------------------------------------------------
(* stratify_samples of the basic script *)

\* a basic condition has between 1 and 4 positive cases in the index
FewPositives ==
    \E k \in DOMAIN basic_conditions :
        LET available == Len(Positive(df, basic_conditions[k]))
        IN  1 <= available /\ available < basic_min_per_condition

\* C22: stratify_samples proceeds with fewer cases rather than failing: for
\* a case index in which a condition has between 1 and 4 positive cases, or
\* which holds fewer than N cases, no step of it raises an error.
C22_ProceedsWithFewer ==
    [][(/\ script = "basic"
        /\ pc \in {"stratify", "stratify_fill", "stratify_combine"}
        /\ FewPositives \/ Len(df) < n_samples)
          => pc' # "failed" /\ error' = ""]_vars

\* C23: for every case index with unique dicom_id values, the sample
\* stratify_samples returns has at most N rows and holds no dicom_id more
\* than once, also when a case is positive for more than one of Normal, CHF
\* and pneumonia.
C23_BasicAtMostNNoDuplicates ==
    (script = "basic" /\ AfterSampler /\ UniqueIds(df))
        => /\ Len(sample_df) <= n_samples
           /\ UniqueIds(sample_df)

----------------------------------------------------------------------------
(* The top level of create_egd_cxr_plots.py *)

\* C24: in create_egd_cxr_plots.py an unexpected exception raised while
\* loading data or creating a plot is caught in main, logged with its
\* traceback, and makes the process exit with a non-zero status.
C24_ExceptionNonZeroExit ==
    (plot_pc = "exit" /\ plot_error # "")
        => /\ \E k \in DOMAIN printed : printed[k] = Line("Error", plot_error)
           /\ \E k \in DOMAIN printed :
                 printed[k] = Line("traceback", plot_error)
           /\ plot_exit # None
           /\ plot_exit # Some(0)

----------------------------------------------------------------------------
(* Runs that share one output directory *)

\* the rows of an output table are all of cases of the sample
OnlySampleRows(file) ==
    \A k \in DOMAIN OutRows(file) : OutRows(file)[k].id \in IdSet(sample_df)

\* the first run wrote rows of a case that the present run did not select
EarlierRowsOfOtherCases ==
    /\ run > 1
    /\ first_sample # None
    /\ IdSet(first_sample[1]) \ IdSet(sample_df) # {}

\* C25: after any sequence of successful run_enhanced_sampling runs over
\* one output directory (the raw dataset may differ between the runs), at
\* the end of each run every row of eye_gaze_sample.csv and
\* fixations_sample.csv in the output directory is of a case of that run's
\* sample, and the gaze_records and fixation_records of the metadata are
\* the row counts of those files: no row of an earlier run survives.
C25_NoRowsOfEarlierRun ==
    (script = "enhanced" /\ pc = "done")
        => /\ OnlySampleRows(out.eye_gaze_sample)
           /\ OnlySampleRows(out.fixations_sample)
           /\ out.metadata # None
           /\ out.metadata[1].data_completeness.gaze_records
                 = Some(RowCount(OutRows(out.eye_gaze_sample)))
           /\ out.metadata[1].data_completeness.fixation_records
                 = Some(RowCount(OutRows(out.fixations_sample)))

\* a second successful run over another dataset, whose sample leaves out
\* cases of the first run's sample, has rewritten both tables
C25_Witness ==
    /\ script = "enhanced" /\ pc = "done" /\ run = 2
    /\ raw \in ChangedDatasets
    /\ EarlierRowsOfOtherCases
    /\ Len(sample_df) > 0
    /\ RowCount(OutRows(out.eye_gaze_sample)) = RowsPerCase * Len(sample_df)
    /\ RowCount(OutRows(out.fixations_sample)) = RowsPerCase * Len(sample_df)

\* C26: after any sequence of successful run_sampling runs of the basic
\* script over one output directory, at the end of each run every row of
\* eye_gaze_sample.csv and fixations_sample.csv in the output directory is
\* of a case of that run's sample, also in a run in which no gaze or
\* fixation row matches the sample: the output table of an earlier run is
\* not left in place.
C26_BasicNoRowsOfEarlierRun ==
    (script = "basic" /\ pc = "done")
        => /\ OnlySampleRows(out.eye_gaze_sample)
           /\ OnlySampleRows(out.fixations_sample)

----------------------------------------------------------------------------
(* A run of the enhanced script with an empty sample *)

\* the three tables of the raw dataset are there and can be read
TablesReadable ==
    /\ raw.gaze.exists /\ raw.gaze.readable
    /\ raw.fixations.exists /\ raw.fixations.readable
    /\ raw.bbox.exists /\ raw.bbox.readable

\* C27: run_enhanced_sampling completes when the sample is empty: for a
\* case index in which no case passes completeness validation, no step
\* after the sampler raises (the completeness rate of
\* create_comprehensive_metadata included), and the run ends with an empty
\* sample table, metadata with total_studies 0 and a report.
C27_EmptySampleCompletes ==
    [][(/\ script = "enhanced"
        /\ AfterSampler
        /\ Len(df_complete) = 0
        /\ TablesReadable)
          => /\ pc' # "failed"
             /\ pc' = "done"
                   => /\ out'.master_sheet_sample = FileWith(<<>>)
                      /\ out'.metadata # None
                      /\ out'.metadata[1].total_studies = 0
                      /\ out'.report # None]_vars

----------------------------------------------------------------------------
(* Primary conditions in a sample of the quota sum or more *)

\* C28: when N is at least 44, the sum of the quotas of steps 1 to 3, the
\* sample create_diverse_sample returns holds, for every primary condition,
\* at least min(8, number of complete cases positive for it) cases positive
\* for it (cases drawn for an earlier condition counted), and every case
\* selected in steps 1 to 4 is in it: nothing is dropped.
C28_PrimaryRepresented ==
    (script = "enhanced" /\ AfterSampler /\ n_samples >= QuotaSum)
        => /\ \A k \in DOMAIN primary_conditions :
                 CountPositive(sample_df, primary_conditions[k])
                    >= Min(primary_samples_per_condition,
                           Len(Positive(df_complete, primary_conditions[k])))
           /\ IdSet(Concat(samples)) = IdSet(sample_df)
           /\ Len(sample_df) = SumLen(samples)
           /\ used_ids = IdSet(sample_df)

\* a sample of N cases out of more, in which the pneumonia draw took fewer
\* than 8 cases because the CHF draw had taken cases positive for both
C28_Witness ==
    /\ script = "enhanced" /\ pc = "save_master" /\ n_samples = QuotaSum
    /\ Len(df_complete) > n_samples
    /\ Len(sample_df) = n_samples
    /\ Len(Positive(df_complete, "pneumonia")) > primary_samples_per_condition
    /\ \E k \in DOMAIN log :
          /\ log[k].msg = "Sampled" /\ log[k].arg = "pneumonia"
          /\ log[k].n < primary_samples_per_condition
    /\ CountPositive(sample_df, "pneumonia") >= primary_samples_per_condition

----------------------------------------------------------------------------
(* The wget download loop run again *)

\* C29: the wget download loop is resumable and idempotent: a case whose
\* output file exists with non-zero size is never downloaded again,
\* download_dicom_with_wget returns True only when the output file exists
\* with non-zero size, and a second run that follows a run in which every
\* file was downloaded or already present makes no download attempt and
\* counts every case as already existing.
C29_ResumableIdempotent ==
    downloader = "wget"
        => /\ dl_pc = "attempt" => dicom_files[cases[idx]] = "none"
           /\ (dl_pc = "sleep" /\ calls[Len(calls)] = ReturnedFrom(cases[idx], TRUE))
                 => dicom_files[cases[idx]] \in {"partial", "complete"}
           /\ (/\ earlier_runs # <<>>
               /\ earlier_runs[Len(earlier_runs)].failed = 0
               /\ dl_pc = "returned")
                 => /\ successful_downloads = 0
                    /\ already_existing = Len(cases)
                    /\ ~\E k \in DOMAIN calls : calls[k].kind = "start"

\* a second run has returned after a first one that downloaded a file,
\* found another one in place and failed for none
C29_Witness ==
    /\ downloader = "wget" /\ dl_pc = "returned"
    /\ Len(cases) = MaxFiles
    /\ earlier_runs # <<>>
    /\ earlier_runs[1].successful_downloads > 0
    /\ earlier_runs[1].already_existing > 0
    /\ earlier_runs[1].failed = 0
    /\ already_existing = Len(cases)

----------------------------------------------------------------------------
(* sample_gaze_data without a gaze table *)

\* C30: sample_gaze_data handles the gaze table and the fixation table
\* independently: when the gaze table is missing and the fixation table
\* exists, the call returns without raising and the fixation rows of the
\* selected cases are extracted and written.
C30_FixationsWithoutGaze ==
    [][(/\ pc = "sample_gaze_data"
        /\ ~raw.gaze.exists
        /\ raw.fixations.exists /\ raw.fixations.readable)
          => /\ pc' = "sample_bounding_boxes"
             /\ error' = ""
             /\ RowsOf(raw.fixations.rows, IdSet(sample_df)) # <<>>
                   => /\ out'.fixations_sample.exists
                      /\ ExactExtraction(raw.fixations.rows,
                                         OutRows(out'.fixations_sample),
                                         IdSet(sample_df))]_vars

====
